---- MODULE Spec2Model ----
(***************************************************************************)
(* Optimistic mutation and reconciliation engine of the money-request      *)
(* actions (src/unnamed/part_000, the IOU action module).                  *)
(*                                                                         *)
(* The Onyx store is a function from keys <<collection, id>> to documents. *)
(* A document is a function from field names to values; nested objects    *)
(* (pendingFields, errorFields, originalMessage) are flattened with "_".   *)
(* A field that is undefined in JavaScript is a field absent from the      *)
(* document.  An orchestrator reads the store, builds the three ordered    *)
(* update lists (optimisticData, successData, failureData), applies the    *)
(* first at once and queues the command; the server later confirms or      *)
(* rejects the oldest queued command.                                      *)
(***************************************************************************)
EXTENDS Integers, Sequences, FiniteSets, TLC

VARIABLES
    store,      \* the Onyx store: key -> document
    queue,      \* the commands written with API.write, oldest first, answered or not
    scenario,   \* what the UI passes: the participant kind and the policy
    clock,      \* DateUtils.getDBTime()
    nextID,     \* source of NumberUtils.rand64() / generated report action IDs
    ops,        \* number of orchestrator calls made so far
    last,       \* the last step taken: its kind and the position of its command in the queue
    split,      \* inputs and result of the last split allocation
    fab         \* the floating action button and its create menu, as last rendered

vars == <<store, queue, scenario, clock, nextID, ops, last, split, fab>>

-----------------------------------------------------------------------------
(* Bounds of the model *)

MaxOps == 1
MaxAmount == 2
MaxSplitTotal == 12
MaxParticipants == 4

Amounts == 1..MaxAmount
Currencies == {"USD", "EUR"}

(* Accounts: the current user and the other participant of the chat *)
userAccountID == 1
payerAccountID == 2
otherAccountID == 3
currentUserLogin == "user@example.com"

(* CONST.REPORT.SPLIT_REPORTID: the report a group-level split transaction is parented to *)
SPLIT_REPORTID == 0 - 2

(* Report identifiers present before any orchestrator runs *)
ChatID == 11
MoneyReportID == 12
InitTransactionID == 13
InitIOUActionID == 14
InitPreviewActionID == 15
InitCreatedActionID == 16
InitThreadID == 17
InitCommentActionID == 18
InitReportCreatedActionID == 19
InitThreadCreatedActionID == 20
InitClock == 10
FirstFreshID == 100
IDsPerCall == 20

(* CONST.REPORT.STATE_NUM / STATUS_NUM *)
STATE_NUM_OPEN == 0
STATE_NUM_SUBMITTED == 1
STATUS_NUM_OPEN == 0
STATUS_NUM_SUBMITTED == 1
STATE_NUM_APPROVED == 2
STATUS_NUM_APPROVED == 3
STATUS_NUM_REIMBURSED == 4

-----------------------------------------------------------------------------
(* JavaScript values that reach getOutstandingChildRequest: a boolean, a   *)
(* policy object or undefined.  One record shape for all three.            *)

JSUndefined == [ty |-> "undefined", b |-> FALSE, id |-> "", type |-> "", role |-> "", isHarvestingEnabled |-> FALSE]
JSBool(v) == [ty |-> "boolean", b |-> v, id |-> "", type |-> "", role |-> "", isHarvestingEnabled |-> FALSE]
PolicyObject(type, role, harvesting) ==
    [ty |-> "object", b |-> FALSE, id |-> "policy1", type |-> type, role |-> role, isHarvestingEnabled |-> harvesting]

(* JavaScript truthiness of such a value *)
Truthy(v) == IF v.ty = "boolean" THEN v.b ELSE v.ty = "object"

(* PolicyUtils.isPolicyAdmin: policy.role === 'admin' *)
isPolicyAdmin(policy) == policy.ty = "object" /\ policy.role = "admin"

(* PolicyUtils.isPaidGroupPolicy: type is team or corporate *)
isPaidGroupPolicy(policy) == policy.ty = "object" /\ policy.type \in {"team", "corporate"}

-----------------------------------------------------------------------------
(* The store contract: Onyx.METHOD.SET replaces the document, MERGE merges *)
(* field by field, a null leaf clears a field, an omitted field is left    *)
(* alone, a null value deletes the key.  A collection of report actions or *)
(* personal details is merged entry by entry.                              *)

EmptyDoc == <<>>

NestedCollections == {"reportActions", "personalDetailsList", "bankAccountList"}

PendingFieldKeys == {"pendingFields_createChat", "pendingFields_preview", "pendingFields_amount", "pendingFields_currency"}
ErrorFieldKeys == {"errorFields_createChat", "errorFields_amount", "errorFields_currency"}

Restrict(f, S) == [k \in (DOMAIN f) \cap S |-> f[k]]

Without(f, S) == [k \in (DOMAIN f) \ S |-> f[k]]

(* An update of one key.  `set` holds the fields written, `clear` the      *)
(* fields written as null.                                                  *)
SetValue(key, doc) == [onyxMethod |-> "set", key |-> key, null |-> FALSE, set |-> doc, clear |-> {}]
SetNull(key) == [onyxMethod |-> "set", key |-> key, null |-> TRUE, set |-> EmptyDoc, clear |-> {}]
MergeValue(key, doc, cleared) == [onyxMethod |-> "merge", key |-> key, null |-> FALSE, set |-> doc, clear |-> cleared]

(* One entry of a nested collection *)
Entry(doc, cleared) == [null |-> FALSE, set |-> doc, clear |-> cleared]
NullEntry == [null |-> TRUE, set |-> EmptyDoc, clear |-> {}]

MergeFields(old, p) ==
    LET m == p.set @@ old
    IN  [f \in (DOMAIN m) \ p.clear |-> m[f]]

ApplyUpdate(s, u) ==
    IF u.null
    THEN Without(s, {u.key})
    ELSE LET old == IF u.onyxMethod = "merge" /\ u.key \in DOMAIN s THEN s[u.key] ELSE EmptyDoc
         IN  IF u.key[1] \in NestedCollections
             THEN LET removed == {i \in DOMAIN u.set : u.set[i].null}
                      ids == ((DOMAIN old) \cup (DOMAIN u.set)) \ removed
                      new == [i \in ids |->
                                 IF i \in DOMAIN u.set
                                 THEN MergeFields(IF i \in DOMAIN old THEN old[i] ELSE EmptyDoc, u.set[i])
                                 ELSE old[i]]
                  IN  (u.key :> new) @@ s
             ELSE (u.key :> MergeFields(old, u)) @@ s

RECURSIVE Apply(_, _)
Apply(s, updates) ==
    IF Len(updates) = 0 THEN s ELSE Apply(ApplyUpdate(s, Head(updates)), Tail(updates))

ReportKey(id) == <<"report", id>>
TransactionKey(id) == <<"transactions", id>>
ReportActionsKey(id) == <<"reportActions", id>>
(* CONST.IOU.OPTIMISTIC_TRANSACTION_ID: the id every draft of a request is stored under *)
OPTIMISTIC_TRANSACTION_ID == 1
TransactionDraftKey == <<"transactionsDraft", OPTIMISTIC_TRANSACTION_ID>>
PersonalDetailsKey == <<"personalDetailsList", 0>>

(* The module-level caches filled by Onyx.connect *)
allReports(s) == [k \in {k \in DOMAIN s : k[1] = "report"} |-> s[k]]
allTransactions(s) == [k \in {k \in DOMAIN s : k[1] = "transactions"} |-> s[k]]
allPersonalDetails(s) == IF PersonalDetailsKey \in DOMAIN s THEN s[PersonalDetailsKey] ELSE EmptyDoc

ReportActionsOf(s, reportID) ==
    IF ReportActionsKey(reportID) \in DOMAIN s THEN s[ReportActionsKey(reportID)] ELSE EmptyDoc

-----------------------------------------------------------------------------
(* Message texts.  One shape for every text: the kind of sentence, the     *)
(* amount and the currency it shows.                                        *)

Msg(kind, amount, currency) == [kind |-> kind, amount |-> amount, currency |-> currency]
EmptyMsg == Msg("", 0, "")

(* The actionName of a report action; an entry written without one reads as undefined *)
actionNameOf(action) == IF "actionName" \in DOMAIN action THEN action.actionName ELSE "undefined"

(* ErrorUtils.getMicroSecondOnyxError: a timestamped error message *)
OnyxError(message) == [error |-> message]

-----------------------------------------------------------------------------
(* Predicates on reports (ReportUtils) *)

isExpenseReport(report) == "type" \in DOMAIN report /\ report.type = "expense"

isIOUReport(report) == "type" \in DOMAIN report /\ report.type = "iou"

isMoneyRequestReport(report) == isIOUReport(report) \/ isExpenseReport(report)

isPolicyExpenseChat(report) == "chatType" \in DOMAIN report /\ report.chatType = "policyExpenseChat"

isChatThread(report) == "parentReportActionID" \in DOMAIN report /\ report.type = "chat"

isDraftExpenseReport(report) ==
    isExpenseReport(report) /\ report.stateNum = STATE_NUM_OPEN /\ report.statusNum = STATUS_NUM_OPEN

(* ReportUtils.hasIOUWaitingOnCurrentUserBankAccount *)
hasIOUWaitingOnCurrentUserBankAccount(s, chatReport) ==
    /\ "iouReportID" \in DOMAIN chatReport
    /\ ReportKey(chatReport.iouReportID) \in DOMAIN s
    /\ LET iouReport == s[ReportKey(chatReport.iouReportID)]
       IN  /\ "isWaitingOnBankAccount" \in DOMAIN iouReport
           /\ iouReport.isWaitingOnBankAccount
           /\ iouReport.ownerAccountID = userAccountID

(* ReportUtils.getChatByParticipants: the keys of the plain chats with exactly these participants *)
getChatByParticipants(s, participants) ==
    {k \in DOMAIN allReports(s) :
        /\ "participantAccountIDs" \in DOMAIN s[k]
        /\ s[k].participantAccountIDs # {}
        /\ ~isChatThread(s[k])
        /\ ~isMoneyRequestReport(s[k])
        /\ ~isPolicyExpenseChat(s[k])
        /\ s[k].participantAccountIDs = participants}

(* ReportActionsUtils.getReportPreviewAction: the ids of the preview actions of the chat that link the money report *)
getReportPreviewAction(s, chatReportID, iouReportID) ==
    LET actions == ReportActionsOf(s, chatReportID)
    IN  {i \in DOMAIN actions :
            /\ actionNameOf(actions[i]) = "REPORTPREVIEW"
            /\ actions[i].originalMessage_linkedReportID = iouReportID}

-----------------------------------------------------------------------------
(* Entity builders (ReportUtils, TransactionUtils) *)

buildOptimisticChatReport(reportID, participants, now) ==
    [reportID |-> reportID, type |-> "chat", participantAccountIDs |-> participants,
     lastReadTime |-> now, lastVisibleActionCreated |-> now, isOptimisticReport |-> TRUE]

buildOptimisticIOUReport(reportID, payeeAccountID, payer, total, chatReportID, currency) ==
    [reportID |-> reportID, type |-> "iou", chatReportID |-> chatReportID, parentReportID |-> chatReportID,
     ownerAccountID |-> payeeAccountID, managerID |-> payer, total |-> total, currency |-> currency,
     stateNum |-> STATE_NUM_SUBMITTED, statusNum |-> STATUS_NUM_SUBMITTED]

(* The total of an expense report is stored as the negative of the spend; a report of a free policy starts submitted *)
buildOptimisticExpenseReport(reportID, chatReportID, policyID, payeeAccountID, total, currency) ==
    LET isFree == scenario.policy.ty = "object" /\ scenario.policy.type = "free"
    IN  [reportID |-> reportID, type |-> "expense", chatReportID |-> chatReportID, parentReportID |-> chatReportID,
         policyID |-> policyID, ownerAccountID |-> payeeAccountID, managerID |-> payerAccountID,
         total |-> 0 - total, currency |-> currency,
         stateNum |-> IF isFree THEN STATE_NUM_SUBMITTED ELSE STATE_NUM_OPEN,
         statusNum |-> IF isFree THEN STATUS_NUM_SUBMITTED ELSE STATUS_NUM_OPEN]

buildOptimisticTransaction(transactionID, amount, currency, reportID) ==
    [transactionID |-> transactionID, amount |-> amount, currency |-> currency, reportID |-> reportID,
     pendingAction |-> "add"]

buildOptimisticCreatedReportAction(reportActionID, created) ==
    [reportActionID |-> reportActionID, actionName |-> "CREATED", pendingAction |-> "add",
     actorAccountID |-> userAccountID, created |-> created, message |-> Msg("created", 0, "")]

buildOptimisticIOUReportAction(reportActionID, type, amount, currency, transactionID, iouReportID, created) ==
    [reportActionID |-> reportActionID, actionName |-> "IOU", pendingAction |-> "add",
     actorAccountID |-> userAccountID, created |-> created,
     message |-> Msg(IF type = "pay" THEN "paid" ELSE "requested", amount, currency),
     originalMessage_type |-> type, originalMessage_amount |-> amount, originalMessage_currency |-> currency,
     originalMessage_IOUTransactionID |-> transactionID, originalMessage_IOUReportID |-> iouReportID]

(* The text of a report preview: what the payer owes on the money report *)
getReportPreviewMessage(iouReport) == Msg("payerOwesAmount", iouReport.total, iouReport.currency)

buildOptimisticReportPreview(reportActionID, chatReport, iouReport, created) ==
    [reportActionID |-> reportActionID, actionName |-> "REPORTPREVIEW", pendingAction |-> "add",
     actorAccountID |-> userAccountID, created |-> created,
     message |-> getReportPreviewMessage(iouReport),
     originalMessage_linkedReportID |-> iouReport.reportID,
     childReportID |-> iouReport.reportID, childMoneyRequestCount |-> 1]

updateReportPreview(iouReport, reportPreviewAction, isPayRequest, created) ==
    [created |-> created,
     message |-> getReportPreviewMessage(iouReport),
     childMoneyRequestCount |-> reportPreviewAction.childMoneyRequestCount + (IF isPayRequest THEN 0 ELSE 1)]
    @@ reportPreviewAction

-----------------------------------------------------------------------------
(* Aggregation rules *)

(* IOUUtils.updateIOUOwnerAndTotal: a report in another currency is left alone; the actor's amount is added    *)
(* when the actor owns the report and subtracted otherwise; a total that turns negative flips owner and manager *)
updateIOUOwnerAndTotal(iouReport, actorAccountID, amount, currency, isDeleting) ==
    IF currency # iouReport.currency
    THEN iouReport
    ELSE LET signed == IF (actorAccountID = iouReport.ownerAccountID) = (~isDeleting) THEN amount ELSE 0 - amount
             total == iouReport.total + signed
         IN  IF total < 0
             THEN [ownerAccountID |-> iouReport.managerID, managerID |-> iouReport.ownerAccountID, total |-> 0 - total]
                  @@ iouReport
             ELSE [total |-> total] @@ iouReport

(* IOUUtils.calculateAmount: the share of one of numberOfParticipants + 1 people; the current user's share takes *)
(* one unit more when the division leaves a remainder                                                            *)
calculateAmount(numberOfParticipants, total, currency, isDefaultUser) ==
    LET participantCount == numberOfParticipants + 1
        share == total \div participantCount
        remainder == total - share * participantCount
    IN  IF isDefaultUser /\ remainder > 0 THEN share + 1 ELSE share

(* getOutstandingChildRequest(policy, needsToBeManuallySubmitted): the object spread into the chat report *)
getOutstandingChildRequest(policy, needsToBeManuallySubmitted) ==
    IF ~Truthy(needsToBeManuallySubmitted)
    THEN [hasOutstandingChildRequest |-> FALSE]
    ELSE IF isPolicyAdmin(policy)
         THEN [hasOutstandingChildRequest |-> TRUE]
         ELSE EmptyDoc

-----------------------------------------------------------------------------
(* Patch-set assembler *)

(* A JavaScript property whose value is undefined is dropped from a patch: only the fields the document has are written back *)
Defined(doc, fields) == Restrict(doc, fields)

(* getReceiptError: without a receipt, the generic create failure message *)
getReceiptError == OnyxError("iou.error.genericCreateFailureMessage")

(* A successData that forgets the pendingAction of the transaction *)
transactionSuccessKeepsPendingAction(transactionKey) == MergeValue(transactionKey, EmptyDoc, PendingFieldKeys)

(* successData of a create request: the transaction loses its pending markers *)
transactionSuccessUpdate(transactionKey) == MergeValue(transactionKey, EmptyDoc, {"pendingAction"} \cup PendingFieldKeys)

(* An update that leaves the draft of the request where it is *)
transactionDraftKept(draftKey) == MergeValue(draftKey, EmptyDoc, {})

(* The draft the request was composed in is deleted: the key is merged with null *)
clearTransactionDraft(draftKey) == SetNull(draftKey)

(* buildOnyxDataForMoneyRequest: the optimistic, success and failure updates of one money request *)
buildOnyxDataForMoneyRequest(chatReport, iouReport, transaction, chatCreatedAction, iouCreatedAction, iouAction, optimisticPersonalDetailListAction, reportPreviewAction, isNewChatReport, isNewIOUReport, policy, needsToBeManuallySubmitted, now) ==
    LET outstandingChildRequest == getOutstandingChildRequest(JSBool(needsToBeManuallySubmitted), policy)
        chatKey == ReportKey(chatReport.reportID)
        iouKey == ReportKey(iouReport.reportID)
        transactionKey == TransactionKey(transaction.transactionID)
        chatActionsKey == ReportActionsKey(chatReport.reportID)
        iouActionsKey == ReportActionsKey(iouReport.reportID)
        optimisticData ==
            << [onyxMethod |-> IF isNewChatReport THEN "set" ELSE "merge", key |-> chatKey, null |-> FALSE,
                set |-> (IF isNewChatReport THEN [pendingFields_createChat |-> "add"] ELSE EmptyDoc)
                        @@ outstandingChildRequest
                        @@ [lastReadTime |-> now, lastMessageTranslationKey |-> "", iouReportID |-> iouReport.reportID]
                        @@ chatReport,
                clear |-> {}],
               [onyxMethod |-> IF isNewIOUReport THEN "set" ELSE "merge", key |-> iouKey, null |-> FALSE,
                set |-> (IF isNewIOUReport THEN [pendingFields_createChat |-> "add"] ELSE [pendingFields_preview |-> "update"])
                        @@ [lastMessageText |-> iouAction.message, lastMessageHtml |-> iouAction.message]
                        @@ iouReport,
                clear |-> {}],
               SetValue(transactionKey, transaction),
               [onyxMethod |-> IF isNewChatReport THEN "set" ELSE "merge", key |-> chatActionsKey, null |-> FALSE,
                set |-> (IF isNewChatReport THEN chatCreatedAction.reportActionID :> Entry(chatCreatedAction, {}) ELSE EmptyDoc)
                        @@ (reportPreviewAction.reportActionID :> Entry(reportPreviewAction, {})),
                clear |-> {}],
               [onyxMethod |-> IF isNewIOUReport THEN "set" ELSE "merge", key |-> iouActionsKey, null |-> FALSE,
                set |-> (IF isNewIOUReport THEN iouCreatedAction.reportActionID :> Entry(iouCreatedAction, {}) ELSE EmptyDoc)
                        @@ (iouAction.reportActionID :> Entry(iouAction, {})),
                clear |-> {}],
               clearTransactionDraft(TransactionDraftKey) >>
            \o (IF DOMAIN optimisticPersonalDetailListAction # {}
                THEN << MergeValue(PersonalDetailsKey,
                                   [a \in DOMAIN optimisticPersonalDetailListAction |->
                                       Entry(optimisticPersonalDetailListAction[a], {})], {}) >>
                ELSE << >>)
        successData ==
            (IF isNewChatReport
             THEN << MergeValue(chatKey, EmptyDoc, PendingFieldKeys \cup ErrorFieldKeys) >>
             ELSE << >>)
            \o << MergeValue(iouKey, EmptyDoc, PendingFieldKeys \cup ErrorFieldKeys),
                  transactionSuccessUpdate(transactionKey),
                  MergeValue(chatActionsKey,
                             (IF isNewChatReport
                              THEN chatCreatedAction.reportActionID :> Entry(EmptyDoc, {"pendingAction", "errors"})
                              ELSE EmptyDoc)
                             @@ (reportPreviewAction.reportActionID :> Entry(EmptyDoc, {"pendingAction"})), {}),
                  MergeValue(iouActionsKey,
                             (IF isNewIOUReport
                              THEN iouCreatedAction.reportActionID :> Entry(EmptyDoc, {"pendingAction", "errors"})
                              ELSE EmptyDoc)
                             @@ (iouAction.reportActionID :> Entry(EmptyDoc, {"pendingAction", "errors"})), {}) >>
        failureData ==
            << MergeValue(chatKey,
                          (IF isNewChatReport
                           THEN [errorFields_createChat |-> OnyxError("report.genericCreateReportFailureMessage")]
                           ELSE EmptyDoc)
                          @@ Defined(chatReport, {"iouReportID", "lastReadTime", "hasOutstandingChildRequest"}),
                          PendingFieldKeys),
               MergeValue(iouKey,
                          IF isNewIOUReport
                          THEN [errorFields_createChat |-> OnyxError("report.genericCreateReportFailureMessage")]
                          ELSE EmptyDoc,
                          PendingFieldKeys),
               MergeValue(transactionKey, [errors |-> OnyxError("iou.error.genericCreateFailureMessage")],
                          {"pendingAction"} \cup PendingFieldKeys),
               clearTransactionDraft(TransactionDraftKey),
               MergeValue(chatActionsKey,
                          IF isNewChatReport
                          THEN (chatCreatedAction.reportActionID :> Entry([errors |-> getReceiptError], {}))
                               @@ (reportPreviewAction.reportActionID :> Entry([errors |-> OnyxError("")], {}))
                          ELSE reportPreviewAction.reportActionID :>
                                   Entry([created |-> reportPreviewAction.created, errors |-> getReceiptError], {}),
                          {}),
               MergeValue(iouActionsKey,
                          IF isNewIOUReport
                          THEN (iouCreatedAction.reportActionID :> Entry([errors |-> getReceiptError], {}))
                               @@ (iouAction.reportActionID :> Entry([errors |-> OnyxError("")], {}))
                          ELSE iouAction.reportActionID :> Entry([errors |-> getReceiptError], {}),
                          {}) >>
    IN  [optimisticData |-> optimisticData, successData |-> successData, failureData |-> failureData]

-----------------------------------------------------------------------------
(* The calls each orchestrator makes to its collaborators once its Onyx data is built, in the order of the code *)

(* An edit that dispatches its command twice *)
editDispatchedTwice == <<"API.write", "API.write">>

(* A request that tells the report about the new action before the command is written *)
requestMoneyNotifiesFirst == <<"Report.notifyNewAction", "API.write", "resetMoneyRequestInfo", "Navigation.dismissModal">>

requestMoneyEffects == <<"API.write", "resetMoneyRequestInfo", "Navigation.dismissModal", "Report.notifyNewAction">>
editRegularMoneyRequestEffects == <<"API.write">>
updateMoneyRequestEffects == <<"API.write">>
deleteMoneyRequestEffects(shouldDeleteIOUReport) ==
    <<"API.write">> \o (IF shouldDeleteIOUReport THEN <<"Navigation.goBack">> ELSE << >>)
approveMoneyRequestEffects == <<"API.write">>
submitReportEffects == <<"API.write">>
payMoneyRequestEffects == <<"API.write", "Navigation.dismissModal">>
splitBillEffects == <<"API.write", "resetMoneyRequestInfo", "Navigation.dismissModal", "Report.notifyNewAction">>
sendMoneyEffects == <<"API.write", "resetMoneyRequestInfo", "Navigation.dismissModal", "Report.notifyNewAction">>

(* How often an orchestrator made a call *)
Calls(effects, call) == Cardinality({i \in DOMAIN effects : effects[i] = call})

-----------------------------------------------------------------------------
(* Scenario orchestrators: create request *)

(* A reused expense report whose total moves the wrong way *)
expenseTotalAddsRequest(iouReport, amount, currency) ==
    IF iouReport.currency = currency THEN [total |-> iouReport.total + amount] @@ iouReport ELSE iouReport

(* A transaction stored with the expense sign on every report *)
transactionAmountAlwaysNegated(iouReport, amount) == 0 - amount

(* The total of a reused expense report: the spend is subtracted when the currencies match *)
expenseTotalAfterRequest(iouReport, amount, currency) ==
    IF iouReport.currency = currency THEN [total |-> iouReport.total - amount] @@ iouReport ELSE iouReport

(* The amount stored on the transaction: negative on an expense report *)
transactionAmountForReport(iouReport, amount) == IF isExpenseReport(iouReport) THEN 0 - amount ELSE amount

(* A lookup that never finds the preview action of the pair *)
noReportPreviewFound(s, isNewIOUReport, chatReportID, iouReportID) == {}

(* The preview action the request updates: none for a new money report, else the one the chat holds for it *)
existingReportPreviews(s, isNewIOUReport, chatReportID, iouReportID) ==
    IF isNewIOUReport THEN {} ELSE getReportPreviewAction(s, chatReportID, iouReportID)

(* DateUtils.getDBTime: the n-th read of the clock after the read that returned `now`, when the clock moves *)
(* on by `tick` between two reads (0: the reads fall into the same millisecond)                                *)
getDBTime(now, tick, n) == now + n * tick

(* DateUtils.subtractMillisecondsFromDateTime *)
subtractMillisecondsFromDateTime(dateTime, milliseconds) == dateTime - milliseconds

(* getMoneyRequestInformation: resolve or build the chat, the money report, the transaction and the actions. *)
(* `report` is the report the flow started from (EmptyDoc from the global create menu), `base` the first of   *)
(* the fresh identifiers of this call, `now` the clock read of STEP 4 (currentTime).  The builders that are    *)
(* given no time read the clock themselves: the CREATED action of the chat first, the preview action second.   *)
getMoneyRequestInformation(s, report, participant, amount, currency, payeeAccountID, policy, now, tick, base) ==
    LET payer == participant.accountID
        expenseChat == participant.isPolicyExpenseChat
        \* STEP 1: the existing chat report or a new optimistic one
        given == "reportID" \in DOMAIN report
        fromParticipant == ~given /\ expenseChat /\ ReportKey(participant.reportID) \in DOMAIN allReports(s)
        byParticipants == getChatByParticipants(s, {payer})
        isNewChatReport == ~given /\ ~fromParticipant /\ byParticipants = {}
        isFromPaidPolicy == expenseChat /\ isPaidGroupPolicy(policy)
        needsToBeManuallySubmitted == IF expenseChat THEN isFromPaidPolicy /\ ~policy.isHarvestingEnabled ELSE TRUE
        shouldCreateOptimisticPersonalDetails == isNewChatReport /\ payer \notin DOMAIN allPersonalDetails(s)
        optimisticPersonalDetailListAction ==
            IF shouldCreateOptimisticPersonalDetails
            THEN payer :> [accountID |-> payer, login |-> participant.login, isOptimisticPersonalDetail |-> TRUE]
            ELSE EmptyDoc
        onChat(chatReport) ==
            \* STEP 2: the existing money report with its total updated, or a new optimistic one
            LET isNewIOUReport == ~("iouReportID" \in DOMAIN chatReport) \/ hasIOUWaitingOnCurrentUserBankAccount(s, chatReport)
                linked == ~isNewIOUReport /\ ReportKey(chatReport.iouReportID) \in DOMAIN allReports(s)
                reuse == linked /\ ~(expenseChat /\ isFromPaidPolicy /\ ~isDraftExpenseReport(s[ReportKey(chatReport.iouReportID)]))
                existing == s[ReportKey(chatReport.iouReportID)]
                onReport(iouReport0) ==
                    LET previews == existingReportPreviews(s, isNewIOUReport, chatReport.reportID, iouReport0.reportID)
                        \* STEP 4: the optimistic report actions
                        onTransaction(optimisticTransaction) ==
                            LET onActions(optimisticCreatedActionForChat, optimisticCreatedActionForIOU, iouAction, reportPreviewAction) ==
                                    \* STEP 5: the Onyx data
                                    LET onPreview(iouReport) ==
                                            [payerAccountID |-> payer,
                                             iouReport |-> iouReport,
                                             chatReport |-> chatReport,
                                             transaction |-> optimisticTransaction,
                                             iouAction |-> iouAction,
                                             createdChatReportActionID |-> IF isNewChatReport THEN optimisticCreatedActionForChat.reportActionID ELSE 0,
                                             createdIOUReportActionID |-> IF isNewIOUReport THEN optimisticCreatedActionForIOU.reportActionID ELSE 0,
                                             reportPreviewAction |-> reportPreviewAction,
                                             isNewChatReport |-> isNewChatReport,
                                             isNewIOUReport |-> isNewIOUReport,
                                             reusedIOUReport |-> reuse,
                                             onyxData |-> buildOnyxDataForMoneyRequest(chatReport, iouReport, optimisticTransaction, optimisticCreatedActionForChat, optimisticCreatedActionForIOU, iouAction, optimisticPersonalDetailListAction, reportPreviewAction, isNewChatReport, isNewIOUReport, policy, needsToBeManuallySubmitted, now)]
                                    IN  onPreview(IF previews # {} THEN iouReport0
                                                  ELSE [parentReportActionID |-> reportPreviewAction.reportActionID] @@ iouReport0)
                            IN  onActions(buildOptimisticCreatedReportAction(base + 3, getDBTime(now, tick, 1)),
                                          buildOptimisticCreatedReportAction(base + 4, subtractMillisecondsFromDateTime(now, 1)),
                                          buildOptimisticIOUReportAction(base + 5, "create", amount, currency, optimisticTransaction.transactionID, iouReport0.reportID, now),
                                          IF previews # {}
                                          THEN updateReportPreview(iouReport0, ReportActionsOf(s, chatReport.reportID)[CHOOSE i \in previews : TRUE], FALSE, getDBTime(now, tick, 2))
                                          ELSE buildOptimisticReportPreview(base + 6, chatReport, iouReport0, getDBTime(now, tick, 2)))
                    \* STEP 3: the optimistic transaction
                    IN  onTransaction(buildOptimisticTransaction(base + 2, transactionAmountForReport(iouReport0, amount), currency, iouReport0.reportID))
            IN  onReport(IF reuse
                         THEN IF expenseChat
                              THEN expenseTotalAfterRequest(existing, amount, currency)
                              ELSE updateIOUOwnerAndTotal(existing, payeeAccountID, amount, currency, FALSE)
                         ELSE IF expenseChat
                              THEN buildOptimisticExpenseReport(base + 1, chatReport.reportID, chatReport.policyID, payeeAccountID, amount, currency)
                              ELSE buildOptimisticIOUReport(base + 1, payeeAccountID, payer, amount, chatReport.reportID, currency))
    IN  onChat(IF given THEN report
               ELSE IF fromParticipant THEN s[ReportKey(participant.reportID)]
               ELSE IF byParticipants # {} THEN s[CHOOSE k \in byParticipants : TRUE]
               ELSE buildOptimisticChatReport(base, {payer}, now))

(* requestMoney: the command written with API.write and the report the user ends on *)
requestMoney(s, report, amount, currency, payeeAccountID, participant, policy, now, tick, base) ==
    LET currentChatReport == IF isMoneyRequestReport(report) THEN s[ReportKey(report.chatReportID)] ELSE report
        send(info) ==
        [command |-> "RequestMoney",
         params |-> [debtorAccountID |-> info.payerAccountID,
                     amount |-> amount,
                     currency |-> currency,
                     iouReportID |-> info.iouReport.reportID,
                     chatReportID |-> info.chatReport.reportID,
                     transactionID |-> info.transaction.transactionID,
                     reportActionID |-> info.iouAction.reportActionID,
                     createdChatReportActionID |-> info.createdChatReportActionID,
                     createdIOUReportActionID |-> info.createdIOUReportActionID,
                     reportPreviewReportActionID |-> info.reportPreviewAction.reportActionID],
         onyxData |-> info.onyxData,
         isNewChatReport |-> info.isNewChatReport,
         isNewIOUReport |-> info.isNewIOUReport,
         effects |-> requestMoneyEffects]
    IN  send(getMoneyRequestInformation(s, currentChatReport, participant, amount, currency, payeeAccountID, policy, now, tick, base))

-----------------------------------------------------------------------------
(* Transaction accessors (TransactionUtils) *)

(* JavaScript truthiness of an optional number field *)
TruthyNumber(doc, field) == field \in DOMAIN doc /\ doc[field] # 0

(* TransactionUtils.getAmount: the edited amount when there is one; an expense report shows the opposite sign, *)
(* an IOU report the absolute value                                                                           *)
getAmount(transaction, isFromExpenseReport) ==
    LET stored == IF TruthyNumber(transaction, "modifiedAmount") THEN transaction.modifiedAmount ELSE transaction.amount
    IN  IF isFromExpenseReport THEN 0 - stored
        ELSE IF stored < 0 THEN 0 - stored ELSE stored

(* TransactionUtils.getCurrency: the edited currency when there is one *)
getCurrency(transaction) ==
    IF "modifiedCurrency" \in DOMAIN transaction /\ transaction.modifiedCurrency # ""
    THEN transaction.modifiedCurrency
    ELSE transaction.currency

(* TransactionUtils.getUpdatedTransaction: the changes go to the modified* shadow fields, the originals stay *)
getUpdatedTransaction(transaction, transactionChanges, isFromExpenseReport) ==
    (IF "amount" \in DOMAIN transactionChanges
     THEN [modifiedAmount |-> IF isFromExpenseReport THEN 0 - transactionChanges.amount ELSE transactionChanges.amount,
           pendingFields_amount |-> "update"]
     ELSE EmptyDoc)
    @@ (IF "currency" \in DOMAIN transactionChanges
        THEN [modifiedCurrency |-> transactionChanges.currency, pendingFields_currency |-> "update"]
        ELSE EmptyDoc)
    @@ transaction

(* ReportUtils.getTransactionDetails: the amount and currency shown to the user *)
getTransactionDetails(transaction, isFromExpenseReport) ==
    [amount |-> getAmount(transaction, isFromExpenseReport), currency |-> getCurrency(transaction)]

(* CurrencyUtils.convertToDisplayString *)
convertToDisplayString(amount, currency) == Msg("display", amount, currency)

(* ReportUtils.buildOptimisticModifiedExpenseReportAction *)
buildOptimisticModifiedExpenseReportAction(reportActionID, transactionThread, transaction, transactionChanges, isFromExpenseReport, created) ==
    [reportActionID |-> reportActionID, actionName |-> "MODIFIEDEXPENSE", pendingAction |-> "add",
     actorAccountID |-> userAccountID, created |-> created, reportID |-> transactionThread.reportID,
     message |-> Msg("modified",
                     IF "amount" \in DOMAIN transactionChanges THEN transactionChanges.amount ELSE 0,
                     IF "currency" \in DOMAIN transactionChanges THEN transactionChanges.currency ELSE "")]

(* The pending and error field names of a set of changed fields *)
pendingFieldsOf(transactionChanges) == {"pendingFields_" \o f : f \in DOMAIN transactionChanges}
errorFieldsOf(transactionChanges) == {"errorFields_" \o f : f \in DOMAIN transactionChanges}

-----------------------------------------------------------------------------
(* Scenario orchestrators: edit request *)

(* An edit that moves the total whatever the currency of the transaction *)
shouldUpdateTotalIgnoringCurrency(updatedTransaction, iouReport) == TruthyNumber(updatedTransaction, "modifiedAmount")

(* The total follows an edit only when the transaction is in the report's currency and the amount was changed *)
shouldUpdateTotal(updatedTransaction, iouReport) ==
    updatedTransaction.currency = iouReport.currency /\ TruthyNumber(updatedTransaction, "modifiedAmount")

(* The money report after an edit that moves the total by -diff on an expense report, by diff on an IOU report *)
reportAfterEdit(iouReport, actorAccountID, diff, transaction, updatedTransaction) ==
    LET moved == IF isExpenseReport(iouReport)
                 THEN [total |-> iouReport.total + diff] @@ iouReport
                 ELSE updateIOUOwnerAndTotal(iouReport, actorAccountID, diff, getCurrency(transaction), FALSE)
    IN  [cachedTotal |-> convertToDisplayString(moved.total, updatedTransaction.currency)] @@ moved

(* TransactionUtils.hasReceipt: the transaction has a receipt with a state *)
hasReceipt(transaction) == "receipt_state" \in DOMAIN transaction

(* TransactionUtils.isReceiptBeingScanned *)
isReceiptBeingScanned(transaction) == transaction.receipt_state \in {"SCANREADY", "SCANNING"}

(* The updates that empty whisperedToAccountIDs on the IOU action of the request and on the preview action of *)
(* its money report                                                                                            *)
whisperResetData(transactionThread, iouReport) ==
    << MergeValue(ReportActionsKey(iouReport.reportID),
                  transactionThread.parentReportActionID :> Entry([whisperedToAccountIDs |-> {}], {}), {}),
       MergeValue(ReportActionsKey(iouReport.parentReportID),
                  iouReport.parentReportActionID :> Entry([whisperedToAccountIDs |-> {}], {}), {}) >>

(* getUpdateMoneyRequestParams: the params and the updates of an UpdateMoneyRequest* command *)
getUpdateMoneyRequestParams(s, transactionID, transactionThreadReportID, transactionChanges, onlyIncludeChangedFields, now, base) ==
    LET clearedPendingFields == pendingFieldsOf(transactionChanges)
        errorFields == [f \in errorFieldsOf(transactionChanges) |-> OnyxError("iou.error.genericEditFailureMessage")]
        transactionThread == s[ReportKey(transactionThreadReportID)]
        transaction == s[TransactionKey(transactionID)]
        iouReport == s[ReportKey(transactionThread.parentReportID)]
        isFromExpenseReport == isExpenseReport(iouReport)
        isScanning == hasReceipt(transaction) /\ isReceiptBeingScanned(transaction)
        updatedTransaction == getUpdatedTransaction(transaction, transactionChanges, isFromExpenseReport)
        transactionDetails == getTransactionDetails(updatedTransaction, isFromExpenseReport)
        updatedReportAction == buildOptimisticModifiedExpenseReportAction(base, transactionThread, transaction, transactionChanges, isFromExpenseReport, now)
        threadActionsKey == ReportActionsKey(transactionThread.reportID)
        diff == getAmount(transaction, TRUE) - getAmount(updatedTransaction, TRUE)
        updatesTotal == shouldUpdateTotal(updatedTransaction, iouReport)
        updatedMoneyRequestReport == reportAfterEdit(iouReport, updatedReportAction.actorAccountID, diff, transaction, updatedTransaction)
        optimisticData ==
            << MergeValue(threadActionsKey, updatedReportAction.reportActionID :> Entry(updatedReportAction, {}), {}) >>
            \o (IF updatesTotal THEN << MergeValue(ReportKey(iouReport.reportID), updatedMoneyRequestReport, {}) >> ELSE << >>)
            \o << MergeValue(TransactionKey(transactionID), [isLoading |-> FALSE] @@ updatedTransaction, ErrorFieldKeys) >>
            \o (IF isScanning /\ ("amount" \in DOMAIN transactionChanges \/ "currency" \in DOMAIN transactionChanges)
                THEN whisperResetData(transactionThread, iouReport)
                ELSE << >>)
        successData ==
            << MergeValue(threadActionsKey, updatedReportAction.reportActionID :> Entry(EmptyDoc, {"pendingAction"}), {}) >>
            \o (IF updatesTotal THEN << MergeValue(ReportKey(iouReport.reportID), EmptyDoc, {"pendingAction"}) >> ELSE << >>)
            \o << MergeValue(TransactionKey(transactionID), [isLoading |-> FALSE], clearedPendingFields \cup ErrorFieldKeys) >>
        failureData ==
            << MergeValue(threadActionsKey,
                          updatedReportAction.reportActionID :>
                              Entry([errors |-> OnyxError("iou.error.genericEditFailureMessage")] @@ updatedReportAction, {}), {}),
               MergeValue(TransactionKey(transactionID), [isLoading |-> FALSE] @@ errorFields, clearedPendingFields),
               MergeValue(ReportKey(iouReport.reportID), iouReport, {}) >>
    IN  [params |-> [reportID |-> iouReport.reportID, transactionID |-> transactionID,
                     reportActionID |-> updatedReportAction.reportActionID,
                     amount |-> transactionDetails.amount, currency |-> transactionDetails.currency],
         onyxData |-> [optimisticData |-> optimisticData, successData |-> successData, failureData |-> failureData]]

(* updateMoneyRequestAmountAndCurrency: both fields are always part of the changes *)
updateMoneyRequestAmountAndCurrency(s, transactionID, transactionThreadReportID, currency, amount, now, base) ==
    LET transactionChanges == [amount |-> amount, currency |-> currency]
        built == getUpdateMoneyRequestParams(s, transactionID, transactionThreadReportID, transactionChanges, TRUE, now, base)
    IN  [command |-> "UpdateMoneyRequestAmountAndCurrency", params |-> built.params, onyxData |-> built.onyxData,
         isNewChatReport |-> FALSE, isNewIOUReport |-> FALSE, effects |-> updateMoneyRequestEffects]

(* The shadow fields editRegularMoneyRequest writes back on failure: the old value, or null when there was none *)
ShadowFields == {"modifiedAmount", "modifiedCurrency"}

ShadowFalsy(transaction, f) ==
    \/ f \notin DOMAIN transaction
    \/ (f = "modifiedAmount" /\ transaction[f] = 0)
    \/ (f = "modifiedCurrency" /\ transaction[f] = "")

(* editRegularMoneyRequest: the EditMoneyRequest command *)
editRegularMoneyRequest(s, transactionID, transactionThreadReportID, transactionChanges, now, base) ==
    LET transactionThread == s[ReportKey(transactionThreadReportID)]
        transaction == s[TransactionKey(transactionID)]
        iouReport == s[ReportKey(transactionThread.parentReportID)]
        chatReport == s[ReportKey(iouReport.chatReportID)]
        isFromExpenseReport == isExpenseReport(iouReport)
        updatedReportAction == buildOptimisticModifiedExpenseReportAction(base, transactionThread, transaction, transactionChanges, isFromExpenseReport, now)
        updatedTransaction == getUpdatedTransaction(transaction, transactionChanges, isFromExpenseReport)
        diff == getAmount(transaction, TRUE) - getAmount(updatedTransaction, TRUE)
        isScanning == hasReceipt(updatedTransaction) /\ isReceiptBeingScanned(updatedTransaction)
        updatesTotal == shouldUpdateTotal(updatedTransaction, iouReport) /\ diff # 0
        moved == reportAfterEdit(iouReport, updatedReportAction.actorAccountID, diff, transaction, updatedTransaction)
        lastMessage == Msg("requested", moved.total, updatedTransaction.currency)
        messageText == Msg("payerOwesAmount", moved.total, moved.currency)
        updatedMoneyRequestReport ==
            IF updatesTotal THEN [lastMessageText |-> lastMessage, lastMessageHtml |-> lastMessage] @@ moved ELSE iouReport
        updatedChatReport ==
            IF updatesTotal THEN [lastMessageText |-> messageText, lastMessageHtml |-> messageText] @@ chatReport ELSE chatReport
        details == getTransactionDetails(updatedTransaction, isFromExpenseReport)
        threadKey == ReportKey(transactionThreadReportID)
        threadActionsKey == ReportActionsKey(transactionThread.reportID)
        optimisticData ==
            << MergeValue(threadActionsKey, updatedReportAction.reportActionID :> Entry(updatedReportAction, {}), {}),
               MergeValue(TransactionKey(transactionID), updatedTransaction, {}),
               MergeValue(ReportKey(iouReport.reportID), updatedMoneyRequestReport, {}),
               MergeValue(ReportKey(iouReport.chatReportID), updatedChatReport, {}),
               MergeValue(threadKey, [lastReadTime |-> now, lastVisibleActionCreated |-> now], {}) >>
            \o (IF ~isScanning THEN whisperResetData(transactionThread, iouReport) ELSE << >>)
        successData ==
            << MergeValue(threadActionsKey, updatedReportAction.reportActionID :> Entry(EmptyDoc, {"pendingAction"}), {}),
               MergeValue(TransactionKey(transactionID), EmptyDoc, {"pendingFields_amount", "pendingFields_currency"}),
               MergeValue(ReportKey(iouReport.reportID), EmptyDoc, {"pendingAction"}) >>
        failureData ==
            << MergeValue(threadActionsKey,
                          updatedReportAction.reportActionID :> Entry([errors |-> OnyxError("iou.error.genericEditFailureMessage")], {}), {}),
               MergeValue(TransactionKey(transactionID),
                          Without(transaction, PendingFieldKeys \cup {f \in ShadowFields : ShadowFalsy(transaction, f)}),
                          PendingFieldKeys \cup {f \in ShadowFields : ShadowFalsy(transaction, f)}),
               MergeValue(ReportKey(iouReport.reportID), iouReport,
                          IF "cachedTotal" \in DOMAIN iouReport THEN {} ELSE {"cachedTotal"}),
               MergeValue(ReportKey(iouReport.chatReportID), chatReport, {}),
               MergeValue(threadKey, Defined(transactionThread, {"lastReadTime", "lastVisibleActionCreated"}), {}) >>
    IN  [command |-> "EditMoneyRequest",
         params |-> [transactionID |-> transactionID, reportActionID |-> updatedReportAction.reportActionID,
                     amount |-> details.amount, currency |-> details.currency],
         onyxData |-> [optimisticData |-> optimisticData, successData |-> successData, failureData |-> failureData],
         isNewChatReport |-> FALSE, isNewIOUReport |-> FALSE, effects |-> editRegularMoneyRequestEffects]

-----------------------------------------------------------------------------
(* Last visible action of a report (ReportActionsUtils) *)

(* A deleted action has an empty message *)
isDeletedAction(action) == action.message = EmptyMsg

isDeletedParentAction(action) == "isDeletedParentAction" \in DOMAIN action /\ action.isDeletedParentAction

(* shouldReportActionBeVisibleAsLastAction: an action with errors or a deleted action is never the last one shown *)
shouldReportActionBeVisibleAsLastAction(action) == "errors" \notin DOMAIN action /\ ~isDeletedAction(action)

(* The actions of a report with `actionsToMerge` merged in *)
mergedActions(s, reportID, actionsToMerge) ==
    LET actions == ReportActionsOf(s, reportID)
        removed == {i \in DOMAIN actionsToMerge : actionsToMerge[i].null}
    IN  [i \in (DOMAIN actions) \ removed |->
            IF i \in DOMAIN actionsToMerge THEN MergeFields(actions[i], actionsToMerge[i]) ELSE actions[i]]

(* getLastVisibleAction: the ids of the visible actions with the latest creation time; empty when none is visible *)
getLastVisibleAction(s, reportID, actionsToMerge) ==
    LET actions == mergedActions(s, reportID, actionsToMerge)
        visible == {i \in DOMAIN actions : shouldReportActionBeVisibleAsLastAction(actions[i])}
    IN  {i \in visible : \A j \in visible : actions[j].created < actions[i].created \/ (actions[j].created = actions[i].created /\ i <= j)}

(* getLastVisibleMessage(...).lastMessageText: empty for no action and for a CREATED action *)
getLastVisibleMessage(s, reportID, actionsToMerge) ==
    LET actions == mergedActions(s, reportID, actionsToMerge)
        lastVisible == getLastVisibleAction(s, reportID, actionsToMerge)
        action == actions[CHOOSE i \in lastVisible : TRUE]
    IN  IF lastVisible = {} THEN EmptyMsg
        ELSE IF action.actionName = "CREATED" THEN EmptyMsg
        ELSE action.message

(* lodashGet(getLastVisibleAction(...), 'created') as a one-field document: no field when there is no action *)
lastVisibleActionCreated(s, reportID, actionsToMerge) ==
    LET actions == mergedActions(s, reportID, actionsToMerge)
        lastVisible == getLastVisibleAction(s, reportID, actionsToMerge)
    IN  IF lastVisible = {} THEN EmptyDoc
        ELSE [lastVisibleActionCreated |-> actions[CHOOSE i \in lastVisible : TRUE].created]

-----------------------------------------------------------------------------
(* Scenario orchestrators: delete request *)

(* A delete that takes every transaction thread with it, commented or not *)
threadDeletedWheneverPresent(reportAction) == "childReportID" \in DOMAIN reportAction

(* The transaction thread goes when it holds no visible comment *)
shouldDeleteTransactionThread(reportAction) ==
    /\ "childReportID" \in DOMAIN reportAction
    /\ ("childVisibleActionCount" \notin DOMAIN reportAction \/ reportAction.childVisibleActionCount = 0)

(* A delete that always keeps the money report *)
neverDeleteIOUReport(iouReportLastMessageText, lastVisibleIsDeletedParent, hasThread, deletesThread) == FALSE

(* The money report goes when nothing visible is left in it and no transaction thread holds it open *)
shouldDeleteIOUReport(iouReportLastMessageText, lastVisibleIsDeletedParent, hasThread, deletesThread) ==
    iouReportLastMessageText = EmptyMsg /\ ~lastVisibleIsDeletedParent /\ (~hasThread \/ deletesThread)

(* The money report without the deleted transaction *)
reportAfterDelete(iouReport, reportAction, transaction) ==
    IF isExpenseReport(iouReport)
    THEN [total |-> iouReport.total + getAmount(transaction, TRUE)] @@ iouReport
    ELSE updateIOUOwnerAndTotal(iouReport, reportAction.actorAccountID, getAmount(transaction, FALSE), getCurrency(transaction), TRUE)

(* A delete that leaves the count of the preview action as it was *)
childMoneyRequestCountKept(reportPreviewAction) == reportPreviewAction.childMoneyRequestCount

(* deleteMoneyRequest: the count of requests the preview action shows after the delete, one less unless it was 0 *)
childMoneyRequestCountAfterDelete(reportPreviewAction) ==
    IF reportPreviewAction.childMoneyRequestCount > 0
    THEN reportPreviewAction.childMoneyRequestCount - 1
    ELSE reportPreviewAction.childMoneyRequestCount

(* deleteMoneyRequest: the DeleteMoneyRequest command *)
deleteMoneyRequest(s, transactionID, reportAction) ==
    LET iouReport == s[ReportKey(reportAction.originalMessage_IOUReportID)]
        chatReport == s[ReportKey(iouReport.chatReportID)]
        reportPreviewActionID == CHOOSE i \in getReportPreviewAction(s, iouReport.chatReportID, iouReport.reportID) : TRUE
        reportPreviewAction == ReportActionsOf(s, iouReport.chatReportID)[reportPreviewActionID]
        transaction == s[TransactionKey(transactionID)]
        hasThread == "childReportID" \in DOMAIN reportAction
        deletesThread == shouldDeleteTransactionThread(reportAction)
        shouldShowDeletedRequestMessage == hasThread /\ ~deletesThread
        updatedReportAction ==
            reportAction.reportActionID :>
                Entry([pendingAction |-> IF shouldShowDeletedRequestMessage THEN "update" ELSE "delete",
                       previousMessage |-> reportAction.message,
                       message |-> EmptyMsg,
                       isDeletedParentAction |-> shouldShowDeletedRequestMessage],
                      {"originalMessage_IOUTransactionID", "errors"})
        lastVisible == getLastVisibleAction(s, iouReport.reportID, updatedReportAction)
        lastVisibleIsDeletedParent ==
            lastVisible # {} /\ isDeletedParentAction(mergedActions(s, iouReport.reportID, updatedReportAction)[CHOOSE i \in lastVisible : TRUE])
        iouReportLastMessageText == getLastVisibleMessage(s, iouReport.reportID, updatedReportAction)
        deletesReport == shouldDeleteIOUReport(iouReportLastMessageText, lastVisibleIsDeletedParent, hasThread, deletesThread)
        moved == reportAfterDelete(iouReport, reportAction, transaction)
        updatedIOUReport ==
            lastVisibleActionCreated(s, iouReport.reportID, updatedReportAction)
            @@ [lastMessageText |-> iouReportLastMessageText]
            @@ Without(moved, {"lastVisibleActionCreated"})
        messageText == Msg("payerOwesAmount", moved.total, moved.currency)
        \* message[0] is shared with the cached preview action, so the text written here is also what failureData holds
        mutatedPreviewAction ==
            [messageText |-> messageText, message |-> IF deletesReport THEN EmptyMsg ELSE messageText] @@ reportPreviewAction
        childMoneyRequestCount == childMoneyRequestCountAfterDelete(reportPreviewAction)
        updatedReportPreviewAction ==
            [pendingAction |-> IF deletesReport THEN "delete" ELSE "update", childMoneyRequestCount |-> childMoneyRequestCount]
            @@ mutatedPreviewAction
        withoutPreview == reportPreviewActionID :> NullEntry
        chatActionsKey == ReportActionsKey(chatReport.reportID)
        iouActionsKey == ReportActionsKey(iouReport.reportID)
        optimisticData ==
            << SetNull(TransactionKey(transactionID)) >>
            \o (IF deletesThread
                THEN << SetNull(ReportKey(reportAction.childReportID)), SetNull(ReportActionsKey(reportAction.childReportID)) >>
                ELSE << >>)
            \o << MergeValue(iouActionsKey, updatedReportAction, {}),
                  MergeValue(ReportKey(iouReport.reportID), updatedIOUReport, {}),
                  MergeValue(chatActionsKey, reportPreviewActionID :> Entry(updatedReportPreviewAction, {}), {}) >>
            \o (IF ~deletesReport /\ childMoneyRequestCount = 0
                THEN << MergeValue(ReportKey(chatReport.reportID), [hasOutstandingChildRequest |-> FALSE], {}) >>
                ELSE << >>)
            \o (IF deletesReport
                THEN << MergeValue(ReportKey(chatReport.reportID),
                                   lastVisibleActionCreated(s, iouReport.chatReportID, withoutPreview)
                                   @@ [hasOutstandingChildRequest |-> FALSE,
                                       lastMessageText |-> getLastVisibleMessage(s, iouReport.chatReportID, withoutPreview)],
                                   {"iouReportID"}) >>
                ELSE << >>)
        successData ==
            << MergeValue(iouActionsKey,
                          reportAction.reportActionID :> (IF deletesReport THEN NullEntry ELSE Entry(EmptyDoc, {"pendingAction"})), {}),
               MergeValue(chatActionsKey,
                          reportPreviewActionID :> (IF deletesReport THEN NullEntry ELSE Entry(EmptyDoc, {"pendingAction", "errors"})), {}) >>
            \o (IF deletesReport THEN << SetNull(ReportKey(iouReport.reportID)) >> ELSE << >>)
        failureData ==
            << SetValue(TransactionKey(transactionID), transaction) >>
            \o (IF deletesThread
                THEN << SetValue(ReportKey(reportAction.childReportID), s[ReportKey(reportAction.childReportID)]) >>
                ELSE << >>)
            \o << MergeValue(iouActionsKey,
                             reportAction.reportActionID :>
                                 Entry([errors |-> OnyxError("iou.error.genericDeleteFailureMessage")] @@ Without(reportAction, {"pendingAction"}),
                                       {"pendingAction"}), {}),
                  [onyxMethod |-> IF deletesReport THEN "set" ELSE "merge", key |-> ReportKey(iouReport.reportID),
                   null |-> FALSE, set |-> iouReport, clear |-> {}],
                  MergeValue(chatActionsKey,
                             reportPreviewActionID :>
                                 Entry([errors |-> OnyxError("iou.error.genericDeleteFailureMessage")] @@ mutatedPreviewAction, {}), {}) >>
            \o (IF deletesReport THEN << MergeValue(ReportKey(chatReport.reportID), chatReport, {}) >> ELSE << >>)
            \o (IF ~deletesReport /\ childMoneyRequestCount = 0
                THEN << MergeValue(ReportKey(chatReport.reportID), [hasOutstandingChildRequest |-> TRUE], {}) >>
                ELSE << >>)
    IN  [command |-> "DeleteMoneyRequest",
         params |-> [transactionID |-> transactionID, reportActionID |-> reportAction.reportActionID],
         onyxData |-> [optimisticData |-> optimisticData, successData |-> successData, failureData |-> failureData],
         isNewChatReport |-> FALSE, isNewIOUReport |-> FALSE, effects |-> deleteMoneyRequestEffects(deletesReport),
         iouReportID |-> iouReport.reportID, chatReportID |-> chatReport.reportID, shouldDeleteIOUReport |-> deletesReport,
         cacheWrites |-> << MergeValue(chatActionsKey,
                                       reportPreviewActionID :> Entry(Restrict(mutatedPreviewAction, {"messageText", "message"}), {}), {}) >>]

-----------------------------------------------------------------------------
(* Scenario orchestrators: replace receipt *)

(* lodashGet(object, path, defaultValue) for a path of one key *)
lodashGet(object, key, defaultValue) == IF key \in DOMAIN object THEN object[key] ELSE defaultValue

(* The path replaceReceipt looks the transaction up by: the string 'transactionID' itself, which is the key of *)
(* no transaction of the collection                                                                            *)
LiteralTransactionIDKey == <<"transactionID", 0>>

(* replaceReceipt: the ReplaceReceipt command.  file is the name of the new file, source its location *)
replaceReceipt(s, transactionID, file, source) ==
    LET transaction == lodashGet(allTransactions(s), LiteralTransactionIDKey, EmptyDoc)
        oldReceipt == Defined(transaction, {"receipt_state", "receipt_source"})
        optimisticData ==
            << MergeValue(TransactionKey(transactionID), [receipt_source |-> source, receipt_state |-> "OPEN", filename |-> file], {}) >>
        failureData ==
            << MergeValue(TransactionKey(transactionID), oldReceipt @@ Defined(transaction, {"filename"}), {}) >>
    IN  [command |-> "ReplaceReceipt",
         params |-> [transactionID |-> transactionID, receipt |-> file],
         onyxData |-> [optimisticData |-> optimisticData, successData |-> << >>, failureData |-> failureData],
         isNewChatReport |-> FALSE, isNewIOUReport |-> FALSE, effects |-> <<"API.write">>]

-----------------------------------------------------------------------------
(* Scenario orchestrators: submit, approve, pay *)

NextStepKey(id) == <<"nextStep", id>>
LastPaymentMethodKey == <<"nvp_lastPaymentMethod", 0>>

(* The module-level cache of next steps *)
allNextSteps(s) == [k \in {k \in DOMAIN s : k[1] = "nextStep"} |-> s[k]]

(* ReportUtils.getReport: the report of the store, or an empty object *)
getReport(s, reportID) == IF ReportKey(reportID) \in DOMAIN allReports(s) THEN s[ReportKey(reportID)] ELSE EmptyDoc

buildOptimisticSubmittedReportAction(reportActionID, amount, currency, created) ==
    [reportActionID |-> reportActionID, actionName |-> "SUBMITTED", pendingAction |-> "add",
     actorAccountID |-> userAccountID, created |-> created, message |-> Msg("submitted", amount, currency)]

buildOptimisticApprovedReportAction(reportActionID, amount, currency, created) ==
    [reportActionID |-> reportActionID, actionName |-> "APPROVED", pendingAction |-> "add",
     actorAccountID |-> userAccountID, created |-> created, message |-> Msg("approved", amount, currency)]

(* The updates that drop the next step of a report and bring it back on failure, when the store has one *)
nextStepOptimisticData(s, reportID) ==
    IF NextStepKey(reportID) \in DOMAIN allNextSteps(s) THEN <<SetNull(NextStepKey(reportID))>> ELSE << >>

nextStepFailureData(s, reportID) ==
    IF NextStepKey(reportID) \in DOMAIN allNextSteps(s)
    THEN <<MergeValue(NextStepKey(reportID), s[NextStepKey(reportID)], {})>>
    ELSE << >>

(* The key of the report action approveMoneyRequest marks with the error: expenseReport.reportActionID, a field *)
(* reports do not have                                                                                          *)
UndefinedActionID == 0

(* approveMoneyRequest: what is applied when the server rejects the approval *)
approveFailureData(expenseReport) ==
    <<MergeValue(ReportActionsKey(expenseReport.reportID), UndefinedActionID :> Entry([errors |-> OnyxError("iou.error.other")], {}), {})>>

(* approveMoneyRequest: the ApproveMoneyRequest command *)
approveMoneyRequest(s, expenseReport, now, base) ==
    LET optimisticApprovedReportAction == buildOptimisticApprovedReportAction(base, expenseReport.total, expenseReport.currency, now)
        actionsKey == ReportActionsKey(expenseReport.reportID)
        optimisticReportActionsData ==
            MergeValue(actionsKey, base :> Entry([pendingAction |-> "add"] @@ optimisticApprovedReportAction, {}), {})
        optimisticIOUReportData ==
            MergeValue(ReportKey(expenseReport.reportID),
                       [lastMessageText |-> optimisticApprovedReportAction.message,
                        lastMessageHtml |-> optimisticApprovedReportAction.message,
                        stateNum |-> STATE_NUM_APPROVED, statusNum |-> STATUS_NUM_APPROVED] @@ expenseReport, {})
    IN  [command |-> "ApproveMoneyRequest",
         params |-> [reportID |-> expenseReport.reportID, approvedReportActionID |-> base],
         onyxData |-> [optimisticData |-> <<optimisticIOUReportData, optimisticReportActionsData>>
                                          \o nextStepOptimisticData(s, expenseReport.reportID),
                       successData |-> <<MergeValue(actionsKey, base :> Entry(EmptyDoc, {"pendingAction"}), {})>>,
                       failureData |-> approveFailureData(expenseReport) \o nextStepFailureData(s, expenseReport.reportID)],
         isNewChatReport |-> FALSE, isNewIOUReport |-> FALSE, effects |-> approveMoneyRequestEffects]

(* submitReport: the state its failureData writes to the report *)
submitFailureReportState(expenseReport) == [statusNum |-> STATUS_NUM_OPEN, stateNum |-> STATE_NUM_OPEN]

(* submitReport: the SubmitReport command *)
submitReport(s, expenseReport, now, base) ==
    LET optimisticSubmittedReportAction == buildOptimisticSubmittedReportAction(base, expenseReport.total, expenseReport.currency, now)
        parentReport == getReport(s, expenseReport.parentReportID)
        hasParent == "reportID" \in DOMAIN parentReport
        isCurrentUserManager == userAccountID = expenseReport.managerID
        actionsKey == ReportActionsKey(expenseReport.reportID)
        optimisticData ==
            <<MergeValue(actionsKey, base :> Entry([pendingAction |-> "add"] @@ optimisticSubmittedReportAction, {}), {}),
              MergeValue(ReportKey(expenseReport.reportID),
                         [lastMessageText |-> optimisticSubmittedReportAction.message,
                          lastMessageHtml |-> optimisticSubmittedReportAction.message,
                          stateNum |-> STATE_NUM_SUBMITTED, statusNum |-> STATUS_NUM_SUBMITTED] @@ expenseReport, {})>>
            \o (IF hasParent
                THEN <<MergeValue(ReportKey(parentReport.reportID),
                                  [hasOutstandingChildRequest |-> isCurrentUserManager] @@ Without(parentReport, {"iouReportID"}),
                                  {"iouReportID"})>>
                ELSE << >>)
        failureData ==
            <<MergeValue(actionsKey, base :> Entry([errors |-> OnyxError("iou.error.other")], {}), {}),
              MergeValue(ReportKey(expenseReport.reportID), submitFailureReportState(expenseReport), {})>>
            \o (IF hasParent
                THEN <<MergeValue(ReportKey(parentReport.reportID),
                                  Defined(parentReport, {"hasOutstandingChildRequest"}) @@ [iouReportID |-> expenseReport.reportID], {})>>
                ELSE << >>)
    IN  [command |-> "SubmitReport",
         params |-> [reportID |-> expenseReport.reportID, managerAccountID |-> expenseReport.managerID, reportActionID |-> base],
         onyxData |-> [optimisticData |-> optimisticData \o nextStepOptimisticData(s, expenseReport.reportID),
                       successData |-> <<MergeValue(actionsKey, base :> Entry(EmptyDoc, {"pendingAction"}), {})>>,
                       failureData |-> failureData \o nextStepFailureData(s, expenseReport.reportID)],
         isNewChatReport |-> FALSE, isNewIOUReport |-> FALSE, effects |-> submitReportEffects]

(* getPayMoneyRequestParams: the parameters and the Onyx data of a payment *)
getPayMoneyRequestParams(s, chatReport, iouReport, recipient, paymentMethodType, now, base) ==
    LET optimisticIOUReportAction ==
            buildOptimisticIOUReportAction(base, "pay", 0 - iouReport.total, iouReport.currency, 0, iouReport.reportID, now)
        previews == getReportPreviewAction(s, chatReport.reportID, iouReport.reportID)
        reportPreviewAction == ReportActionsOf(s, chatReport.reportID)[CHOOSE i \in previews : TRUE]
        optimisticReportPreviewAction == updateReportPreview(iouReport, reportPreviewAction, TRUE, now)
        iouActionsKey == ReportActionsKey(iouReport.reportID)
        chatActionsKey == ReportActionsKey(chatReport.reportID)
        policyID == IF "policyID" \in DOMAIN iouReport THEN iouReport.policyID ELSE "undefined"
        optimisticData ==
            <<MergeValue(ReportKey(chatReport.reportID),
                         [lastReadTime |-> now,
                          lastVisibleActionCreated |-> optimisticIOUReportAction.created,
                          hasOutstandingChildRequest |-> FALSE,
                          lastMessageText |-> optimisticIOUReportAction.message,
                          lastMessageHtml |-> optimisticIOUReportAction.message] @@ Without(chatReport, {"iouReportID"}),
                         {"iouReportID"}),
              MergeValue(iouActionsKey, base :> Entry([pendingAction |-> "add"] @@ optimisticIOUReportAction, {}), {}),
              MergeValue(ReportKey(iouReport.reportID),
                         [lastMessageText |-> optimisticIOUReportAction.message,
                          lastMessageHtml |-> optimisticIOUReportAction.message,
                          hasOutstandingChildRequest |-> FALSE,
                          statusNum |-> STATUS_NUM_REIMBURSED] @@ iouReport, {}),
              MergeValue(LastPaymentMethodKey, policyID :> paymentMethodType, {})>>
        failureData ==
            <<MergeValue(iouActionsKey, base :> Entry([errors |-> OnyxError("iou.error.other")], {}), {}),
              MergeValue(ReportKey(iouReport.reportID), iouReport, {}),
              MergeValue(ReportKey(chatReport.reportID), chatReport, {})>>
    IN  [params |-> [iouReportID |-> iouReport.reportID, chatReportID |-> chatReport.reportID,
                     reportActionID |-> base, paymentMethodType |-> paymentMethodType],
         optimisticData |-> optimisticData
                            \o nextStepOptimisticData(s, iouReport.reportID)
                            \o (IF previews # {}
                                THEN <<MergeValue(chatActionsKey, optimisticReportPreviewAction.reportActionID :> Entry(optimisticReportPreviewAction, {}), {})>>
                                ELSE << >>),
         successData |-> <<MergeValue(iouActionsKey, base :> Entry(EmptyDoc, {"pendingAction"}), {})>>,
         failureData |-> failureData
                         \o nextStepFailureData(s, iouReport.reportID)
                         \o (IF previews # {}
                             THEN <<MergeValue(chatActionsKey, optimisticReportPreviewAction.reportActionID :> Entry([created |-> optimisticReportPreviewAction.created], {}), {})>>
                             ELSE << >>)]

(* payMoneyRequest: the PayMoneyRequest or PayMoneyRequestWithWallet command *)
payMoneyRequest(s, paymentType, chatReport, iouReport, now, base) ==
    LET recipient == [accountID |-> iouReport.ownerAccountID]
        pay == getPayMoneyRequestParams(s, chatReport, iouReport, recipient, paymentType, now, base)
        apiCommand == IF paymentType = "Expensify" THEN "PayMoneyRequestWithWallet" ELSE "PayMoneyRequest"
    IN  [command |-> apiCommand,
         params |-> pay.params,
         onyxData |-> [optimisticData |-> pay.optimisticData, successData |-> pay.successData, failureData |-> pay.failureData],
         isNewChatReport |-> FALSE, isNewIOUReport |-> FALSE, effects |-> payMoneyRequestEffects]

-----------------------------------------------------------------------------
(* Scenario orchestrators: send money *)

(* getSendMoneyParams: the params and the updates of a SendMoney* command.  `report` is the chat the flow     *)
(* started from (EmptyDoc from the global create menu), `recipient` the participant who receives the money.    *)
(* The builders read the clock in the order CREATED action, IOU action, preview action; lastReadTime of the    *)
(* chat is the read after those.                                                                               *)
getSendMoneyParams(s, report, amount, currency, paymentMethodType, managerID, recipient, now, tick, base) ==
    LET recipientAccountID == recipient.accountID
        given == "reportID" \in DOMAIN report
        byParticipants == getChatByParticipants(s, {recipientAccountID})
        isNewChat == ~given /\ byParticipants = {}
        chatReport == IF given THEN report
                      ELSE IF byParticipants # {} THEN s[CHOOSE k \in byParticipants : TRUE]
                      ELSE buildOptimisticChatReport(base, {recipientAccountID}, now)
        optimisticIOUReport == buildOptimisticIOUReport(base + 1, recipientAccountID, managerID, amount, chatReport.reportID, currency)
        optimisticTransaction == buildOptimisticTransaction(base + 2, amount, currency, optimisticIOUReport.reportID)
        optimisticCreatedAction == buildOptimisticCreatedReportAction(base + 3, getDBTime(now, tick, 0))
        optimisticIOUReportAction ==
            buildOptimisticIOUReportAction(base + 5, "pay", amount, currency, optimisticTransaction.transactionID,
                                           optimisticIOUReport.reportID, getDBTime(now, tick, 1))
        reportPreviewAction == buildOptimisticReportPreview(base + 6, chatReport, optimisticIOUReport, getDBTime(now, tick, 2))
        chatKey == ReportKey(chatReport.reportID)
        iouActionsKey == ReportActionsKey(optimisticIOUReport.reportID)
        chatActionsKey == ReportActionsKey(chatReport.reportID)
        transactionKey == TransactionKey(optimisticTransaction.transactionID)
        optimisticChatReportData ==
            [onyxMethod |-> IF isNewChat THEN "set" ELSE "merge", key |-> chatKey, null |-> FALSE,
             set |-> (IF isNewChat THEN [pendingFields_createChat |-> "add"] ELSE EmptyDoc)
                     @@ [lastReadTime |-> getDBTime(now, tick, 3), lastVisibleActionCreated |-> reportPreviewAction.created]
                     @@ chatReport,
             clear |-> {}]
        optimisticIOUReportData ==
            SetValue(ReportKey(optimisticIOUReport.reportID),
                     [lastMessageText |-> optimisticIOUReportAction.message, lastMessageHtml |-> optimisticIOUReportAction.message]
                     @@ optimisticIOUReport)
        optimisticIOUReportActionsData ==
            MergeValue(iouActionsKey,
                       optimisticIOUReportAction.reportActionID :> Entry([pendingAction |-> "add"] @@ optimisticIOUReportAction, {}), {})
        optimisticChatReportActionsData ==
            MergeValue(chatActionsKey,
                       (reportPreviewAction.reportActionID :> Entry(reportPreviewAction, {}))
                       @@ (IF isNewChat THEN optimisticCreatedAction.reportActionID :> Entry(optimisticCreatedAction, {}) ELSE EmptyDoc),
                       {})
        optimisticPersonalDetailListData ==
            MergeValue(PersonalDetailsKey,
                       recipientAccountID :> Entry([accountID |-> recipientAccountID, login |-> recipient.login], {}), {})
        optimisticData ==
            << optimisticChatReportData, optimisticIOUReportData, optimisticChatReportActionsData, optimisticIOUReportActionsData,
               SetValue(transactionKey, optimisticTransaction) >>
            \o (IF isNewChat THEN << optimisticPersonalDetailListData >> ELSE << >>)
        successData ==
            << MergeValue(iouActionsKey, optimisticIOUReportAction.reportActionID :> Entry(EmptyDoc, {"pendingAction"}), {}),
               MergeValue(transactionKey, EmptyDoc, {"pendingAction"}),
               MergeValue(chatActionsKey, reportPreviewAction.reportActionID :> Entry(EmptyDoc, {"pendingAction"}), {}) >>
            \o (IF isNewChat THEN << MergeValue(chatKey, EmptyDoc, PendingFieldKeys) >> ELSE << >>)
        failureData ==
            << MergeValue(transactionKey, [errors |-> OnyxError("iou.error.other")], {}) >>
            \o (IF isNewChat
                THEN << MergeValue(chatKey, [errorFields_createChat |-> OnyxError("report.genericCreateReportFailureMessage")], {}),
                        MergeValue(iouActionsKey, optimisticIOUReportAction.reportActionID :> Entry([errors |-> OnyxError("")], {}), {}) >>
                ELSE << MergeValue(iouActionsKey,
                                   optimisticIOUReportAction.reportActionID :> Entry([errors |-> OnyxError("iou.error.other")], {}), {}) >>)
    IN  [params |-> [iouReportID |-> optimisticIOUReport.reportID,
                     chatReportID |-> chatReport.reportID,
                     reportActionID |-> optimisticIOUReportAction.reportActionID,
                     paymentMethodType |-> paymentMethodType,
                     transactionID |-> optimisticTransaction.transactionID,
                     createdReportActionID |-> IF isNewChat THEN optimisticCreatedAction.reportActionID ELSE 0,
                     reportPreviewReportActionID |-> reportPreviewAction.reportActionID],
         onyxData |-> [optimisticData |-> optimisticData, successData |-> successData, failureData |-> failureData],
         isNewChat |-> isNewChat]

(* sendMoneyElsewhere and sendMoneyWithWallet: the same updates under two command names *)
sendMoney(s, paymentMethodType, report, amount, currency, managerID, recipient, now, tick, base) ==
    LET send == getSendMoneyParams(s, report, amount, currency, paymentMethodType, managerID, recipient, now, tick, base)
    IN  [command |-> IF paymentMethodType = "Expensify" THEN "SendMoneyWithWallet" ELSE "SendMoneyElsewhere",
         params |-> send.params, onyxData |-> send.onyxData,
         isNewChatReport |-> send.isNewChat, isNewIOUReport |-> TRUE, effects |-> sendMoneyEffects]

-----------------------------------------------------------------------------
(* Scenario orchestrators: split *)

(* ReportUtils.isReportApproved *)
isReportApproved(report) ==
    /\ "stateNum" \in DOMAIN report /\ report.stateNum = STATE_NUM_APPROVED
    /\ "statusNum" \in DOMAIN report /\ report.statusNum = STATUS_NUM_APPROVED

(* ReportUtils.isControlPolicyExpenseReport: an expense report of a policy of type corporate *)
isControlPolicyExpenseReport(report) ==
    isExpenseReport(report) /\ scenario.policy.ty = "object" /\ scenario.policy.type = "corporate"

(* The sequences of a sequence of sequences, one after the other *)
RECURSIVE Flatten(_)
Flatten(seqs) == IF seqs = << >> THEN << >> ELSE Head(seqs) \o Flatten(Tail(seqs))

(* A split leg that starts a new expense report whenever the linked one of a paid policy is not a draft *)
shouldCreateNewWhenNotDraft(isOwnPolicyExpenseChat, hasReport, oneOnOneIOUReport) ==
    \/ ~hasReport
    \/ isOwnPolicyExpenseChat /\ isExpenseReport(oneOnOneIOUReport) /\ ~isDraftExpenseReport(oneOnOneIOUReport)

(* shouldCreateNewOneOnOneIOUReport: no linked report in the cache, or an approved expense report of a Control policy *)
shouldCreateNewOneOnOneIOUReport(isOwnPolicyExpenseChat, hasReport, oneOnOneIOUReport) ==
    \/ ~hasReport
    \/ isOwnPolicyExpenseChat /\ isControlPolicyExpenseReport(oneOnOneIOUReport) /\ isReportApproved(oneOnOneIOUReport)

(* A loop that stops after the first participant *)
onlyFirstParticipant(legs) == SubSeq(legs, 1, 1)

(* The loop over the participants leaves out the current user and keeps everybody else *)
participantsToSplitWith(legs) == SelectSeq(legs, LAMBDA l : ~l.skipped)

(* The body of the loop of createSplitsAndOnyxData: the money request between the current user and the i-th *)
(* participant, on their one-on-one chat.  The chat, the money report and the actions are resolved in the    *)
(* order of the code, each from the ones before                                                              *)
oneOnOneRequest(s, participant, i, splitChatReport, hasExistingSplitChatReport, isOwnPolicyExpenseChat, hasMultipleParticipants, existingSplitChatReportID, currentUserAccountID, splitAmount, currency, now, tick, base) ==
    LET legBase == base + 4 + 7 * (i - 1)
        isWorkspace == isOwnPolicyExpenseChat \/ participant.isPolicyExpenseChat
        email == IF isWorkspace THEN "" ELSE participant.login
        accountID == IF isWorkspace THEN 0 ELSE participant.accountID
        personalDetailExists == accountID \in DOMAIN allPersonalDetails(s)
        \* STEP 1: the existing chat report or a new optimistic one
        sameAsSplitChat == (~hasMultipleParticipants /\ existingSplitChatReportID = 0) \/ isOwnPolicyExpenseChat
        existingChats == getChatByParticipants(s, {accountID})
        isNewOneOnOneChatReport == ~sameAsSplitChat /\ existingChats = {}
        shouldCreateOptimisticPersonalDetails ==
            IF sameAsSplitChat THEN ~hasExistingSplitChatReport /\ ~personalDetailExists
            ELSE isNewOneOnOneChatReport /\ ~personalDetailExists
        oneOnOnePersonalDetailListAction ==
            IF shouldCreateOptimisticPersonalDetails
            THEN accountID :> [accountID |-> accountID, login |-> participant.login, isOptimisticPersonalDetail |-> TRUE]
            ELSE EmptyDoc
        currentTime == getDBTime(now, tick, 3 * i)
        onChat(oneOnOneChatReport) ==
            \* STEP 2: the existing money report with its total updated, or a new optimistic one
            LET hasReport == "iouReportID" \in DOMAIN oneOnOneChatReport
                             /\ ReportKey(oneOnOneChatReport.iouReportID) \in DOMAIN allReports(s)
                existing == IF hasReport THEN s[ReportKey(oneOnOneChatReport.iouReportID)] ELSE EmptyDoc
                shouldCreateNew == shouldCreateNewOneOnOneIOUReport(isOwnPolicyExpenseChat, hasReport, existing)
                onReport(oneOnOneIOUReport) ==
                    \* STEP 3: the optimistic transaction; STEP 4: the optimistic report actions
                    LET previews == getReportPreviewAction(s, oneOnOneChatReport.reportID, oneOnOneIOUReport.reportID)
                        build(oneOnOneTransaction, oneOnOneCreatedActionForChat, oneOnOneCreatedActionForIOU, oneOnOneIOUAction, oneOnOneReportPreviewAction) ==
                            \* STEP 5: the Onyx data
                            [skipped |-> email = currentUserLogin,
                             individualSplit |-> [email |-> email, accountID |-> accountID, amount |-> splitAmount,
                                                  iouReportID |-> oneOnOneIOUReport.reportID,
                                                  chatReportID |-> oneOnOneChatReport.reportID,
                                                  transactionID |-> oneOnOneTransaction.transactionID,
                                                  reportActionID |-> oneOnOneIOUAction.reportActionID,
                                                  createdChatReportActionID |-> oneOnOneCreatedActionForChat.reportActionID,
                                                  createdIOUReportActionID |-> oneOnOneCreatedActionForIOU.reportActionID,
                                                  reportPreviewReportActionID |-> oneOnOneReportPreviewAction.reportActionID],
                             appended |-> hasReport /\ ~shouldCreateNew,
                             \* oneOnOneIOUReport.total -= splitAmount assigns to the entry of allReports itself
                             cacheWrites |-> IF hasReport /\ ~shouldCreateNew /\ isOwnPolicyExpenseChat
                                             THEN << MergeValue(ReportKey(existing.reportID), [total |-> oneOnOneIOUReport.total], {}) >>
                                             ELSE << >>,
                             isNewChatReport |-> isNewOneOnOneChatReport,
                             isNewIOUReport |-> shouldCreateNew,
                             onyxData |-> buildOnyxDataForMoneyRequest(oneOnOneChatReport, oneOnOneIOUReport, oneOnOneTransaction,
                                              oneOnOneCreatedActionForChat, oneOnOneCreatedActionForIOU, oneOnOneIOUAction,
                                              oneOnOnePersonalDetailListAction, oneOnOneReportPreviewAction,
                                              isNewOneOnOneChatReport, shouldCreateNew, JSUndefined, TRUE, currentTime)]
                    IN  build(buildOptimisticTransaction(legBase + 2, transactionAmountForReport(oneOnOneIOUReport, splitAmount),
                                                         currency, oneOnOneIOUReport.reportID),
                              buildOptimisticCreatedReportAction(legBase + 3, getDBTime(now, tick, 3 * i + 1)),
                              buildOptimisticCreatedReportAction(legBase + 4, subtractMillisecondsFromDateTime(currentTime, 1)),
                              buildOptimisticIOUReportAction(legBase + 5, "create", splitAmount, currency, legBase + 2,
                                                             oneOnOneIOUReport.reportID, currentTime),
                              IF previews # {}
                              THEN updateReportPreview(oneOnOneIOUReport,
                                                       ReportActionsOf(s, oneOnOneChatReport.reportID)[CHOOSE p \in previews : TRUE],
                                                       FALSE, getDBTime(now, tick, 3 * i + 2))
                              ELSE buildOptimisticReportPreview(legBase + 6, oneOnOneChatReport, oneOnOneIOUReport,
                                                                getDBTime(now, tick, 3 * i + 2)))
            IN  onReport(IF shouldCreateNew
                         THEN IF isOwnPolicyExpenseChat
                              THEN buildOptimisticExpenseReport(legBase + 1, oneOnOneChatReport.reportID, oneOnOneChatReport.policyID,
                                                                currentUserAccountID, splitAmount, currency)
                              ELSE buildOptimisticIOUReport(legBase + 1, currentUserAccountID, accountID, splitAmount,
                                                            oneOnOneChatReport.reportID, currency)
                         ELSE IF isOwnPolicyExpenseChat
                              THEN [total |-> existing.total - splitAmount] @@ existing
                              ELSE updateIOUOwnerAndTotal(existing, currentUserAccountID, splitAmount, currency, FALSE))
    IN  onChat(IF sameAsSplitChat THEN splitChatReport
               ELSE IF existingChats # {} THEN s[CHOOSE k \in existingChats : TRUE]
               ELSE buildOptimisticChatReport(legBase, {accountID}, now))

(* createSplitsAndOnyxData: the group-level chat, transaction and actions, then one money request per other  *)
(* participant.  `participants` is a sequence of participants, existingSplitChatReportID is 0 for the empty   *)
(* string, `now` is the first clock read of the call and `base` the first of its fresh identifiers             *)
createSplitsAndOnyxData(s, participants, currentUserAccountID, amount, currency, existingSplitChatReportID, now, tick, base) ==
    LET participantAccountIDs == {participants[i].accountID : i \in DOMAIN participants}
        givenID == IF existingSplitChatReportID # 0 THEN existingSplitChatReportID ELSE participants[1].reportID
        existingKeys == IF givenID # 0
                        THEN {k \in {ReportKey(givenID)} : k \in DOMAIN allReports(s)}
                        ELSE getChatByParticipants(s, participantAccountIDs)
        hasExistingSplitChatReport == existingKeys # {}
        splitTransaction == buildOptimisticTransaction(base + 1, amount, currency, SPLIT_REPORTID)
        splitCreatedReportAction == buildOptimisticCreatedReportAction(base + 2, getDBTime(now, tick, 0))
        splitIOUReportAction ==
            buildOptimisticIOUReportAction(base + 3, "split", amount, currency, base + 1, 0, getDBTime(now, tick, 1))
        transactionKey == TransactionKey(base + 1)
        method == IF hasExistingSplitChatReport THEN "merge" ELSE "set"
        \* Loop through participants creating individual chats, iouReports and reportActionIDs as needed
        splitAmount == calculateAmount(Len(participants), amount, currency, FALSE)
        self == [email |-> currentUserLogin, accountID |-> currentUserAccountID,
                 amount |-> calculateAmount(Len(participants), amount, currency, TRUE)]
        onSplitChat(splitChatReport, isOwnPolicyExpenseChat) ==
            LET chatKey == ReportKey(splitChatReport.reportID)
                chatActionsKey == ReportActionsKey(splitChatReport.reportID)
                splitOptimisticData ==
                    << [onyxMethod |-> method, key |-> chatKey, null |-> FALSE, set |-> splitChatReport, clear |-> {}],
                       [onyxMethod |-> method, key |-> chatActionsKey, null |-> FALSE,
                        set |-> (IF hasExistingSplitChatReport THEN EmptyDoc
                                 ELSE splitCreatedReportAction.reportActionID :> Entry(splitCreatedReportAction, {}))
                                @@ (splitIOUReportAction.reportActionID :> Entry(splitIOUReportAction, {})),
                        clear |-> {}],
                       SetValue(transactionKey, splitTransaction) >>
                splitSuccessData ==
                    << MergeValue(chatActionsKey,
                                  (IF hasExistingSplitChatReport THEN EmptyDoc
                                   ELSE splitCreatedReportAction.reportActionID :> Entry(EmptyDoc, {"pendingAction"}))
                                  @@ (splitIOUReportAction.reportActionID :> Entry(EmptyDoc, {"pendingAction"})), {}),
                       MergeValue(transactionKey, EmptyDoc, {"pendingAction"}),
                       [onyxMethod |-> "merge", key |-> TransactionDraftKey, null |-> TRUE, set |-> EmptyDoc, clear |-> {}] >>
                    \o (IF hasExistingSplitChatReport THEN << >> ELSE << MergeValue(chatKey, EmptyDoc, {"pendingFields_createChat"}) >>)
                splitFailureData ==
                    << MergeValue(transactionKey, [errors |-> OnyxError("iou.error.genericCreateFailureMessage")], {}),
                       [onyxMethod |-> "merge", key |-> TransactionDraftKey, null |-> TRUE, set |-> EmptyDoc, clear |-> {}] >>
                    \o (IF hasExistingSplitChatReport
                        THEN << MergeValue(chatActionsKey,
                                           splitIOUReportAction.reportActionID :>
                                               Entry([errors |-> OnyxError("iou.error.genericCreateFailureMessage")], {}), {}) >>
                        ELSE << MergeValue(chatKey, [errorFields_createChat |-> OnyxError("report.genericCreateReportFailureMessage")], {}),
                                MergeValue(chatActionsKey, splitIOUReportAction.reportActionID :> Entry([errors |-> OnyxError("")], {}), {}) >>)
                collect(legs) ==
                    [splitData |-> [chatReportID |-> splitChatReport.reportID,
                                    transactionID |-> splitTransaction.transactionID,
                                    reportActionID |-> splitIOUReportAction.reportActionID,
                                    createdReportActionID |-> IF hasExistingSplitChatReport THEN 0
                                                              ELSE splitCreatedReportAction.reportActionID],
                     splits |-> << self >> \o [i \in DOMAIN legs |-> legs[i].individualSplit],
                     legs |-> [i \in DOMAIN legs |-> Without(legs[i], {"onyxData"})],
                     isNewChat |-> ~hasExistingSplitChatReport,
                     \* splitChatReport.lastReadTime = ... assigns to the entry of allReports when the chat exists
                     cacheWrites |-> (IF hasExistingSplitChatReport
                                      THEN << MergeValue(chatKey, [lastReadTime |-> splitChatReport.lastReadTime,
                                                                   lastMessageText |-> splitChatReport.lastMessageText,
                                                                   lastMessageHtml |-> splitChatReport.lastMessageHtml], {}) >>
                                      ELSE << >>)
                                     \o Flatten([i \in DOMAIN legs |-> legs[i].cacheWrites]),
                     onyxData |-> [optimisticData |-> splitOptimisticData \o Flatten([i \in DOMAIN legs |-> legs[i].onyxData.optimisticData]),
                                   successData |-> splitSuccessData \o Flatten([i \in DOMAIN legs |-> legs[i].onyxData.successData]),
                                   failureData |-> splitFailureData \o Flatten([i \in DOMAIN legs |-> legs[i].onyxData.failureData])]]
            IN  collect(participantsToSplitWith(
                    [i \in DOMAIN participants |->
                        oneOnOneRequest(s, participants[i], i, splitChatReport, hasExistingSplitChatReport, isOwnPolicyExpenseChat,
                                        Len(participants) > 1, existingSplitChatReportID, currentUserAccountID, splitAmount,
                                        currency, now, tick, base)]))
        withChat(splitChatReport0) ==
            onSplitChat((IF hasExistingSplitChatReport THEN EmptyDoc ELSE [pendingFields_createChat |-> "add"])
                        @@ [lastReadTime |-> getDBTime(now, tick, 2),
                            lastMessageText |-> splitIOUReportAction.message, lastMessageHtml |-> splitIOUReportAction.message]
                        @@ splitChatReport0,
                        "isOwnPolicyExpenseChat" \in DOMAIN splitChatReport0 /\ splitChatReport0.isOwnPolicyExpenseChat)
    IN  withChat(IF hasExistingSplitChatReport THEN s[CHOOSE k \in existingKeys : TRUE]
                 ELSE buildOptimisticChatReport(base, participantAccountIDs, now))

(* splitBill and splitBillAndOpenReport: the same data under two command names; the first is given the chat the *)
(* split happens in, the second starts from the global create menu                                               *)
splitBill(s, command, participants, currentUserAccountID, amount, currency, existingSplitChatReportID, now, tick, base) ==
    LET send(data) ==
        [command |-> command,
         params |-> [reportID |-> data.splitData.chatReportID,
                     amount |-> amount,
                     splits |-> data.splits,
                     currency |-> currency,
                     transactionID |-> data.splitData.transactionID,
                     reportActionID |-> data.splitData.reportActionID,
                     createdReportActionID |-> data.splitData.createdReportActionID],
         onyxData |-> data.onyxData,
         legs |-> data.legs, participantCount |-> Len(participants), cacheWrites |-> data.cacheWrites,
         isNewChatReport |-> data.isNewChat, isNewIOUReport |-> FALSE, effects |-> splitBillEffects]
    IN  send(createSplitsAndOnyxData(s, participants, currentUserAccountID, amount, currency, existingSplitChatReportID, now, tick, base))

-----------------------------------------------------------------------------
(* The store before any orchestrator runs *)

Policies ==
    {PolicyObject("team", "user", FALSE), PolicyObject("team", "admin", FALSE),
     PolicyObject("team", "user", TRUE), PolicyObject("free", "user", FALSE),
     PolicyObject("corporate", "user", FALSE)}

Participant(kind) ==
    [accountID |-> payerAccountID, login |-> "payer@example.com",
     isPolicyExpenseChat |-> (kind = "expense"), reportID |-> IF kind = "expense" THEN ChatID ELSE 0]

(* A second person the current user can split with, with whom there is no chat yet *)
OtherParticipant == [accountID |-> otherAccountID, login |-> "other@example.com", isPolicyExpenseChat |-> FALSE, reportID |-> 0]

(* The receipt of the transaction on the device: none, or one that is being scanned *)
ReceiptStates == {"none", "SCANNING"}

(* What is on the device at start: the kind of chat, whether the chat and a money report with one transaction exist, *)
(* the state of that report, the currency of its transaction, whether its transaction thread was opened and the      *)
(* receipt of the transaction (a receipt only where the thread was opened, which is where it can be edited)          *)
Situations ==
    {c \in [kind : {"p2p", "expense"}, policy : Policies \cup {JSUndefined}, hasChat : BOOLEAN, hasReport : BOOLEAN,
            knownPayer : BOOLEAN, open : BOOLEAN, approved : BOOLEAN, txCurrency : Currencies, thread : {"none", "empty", "comment"},
            receipt : ReceiptStates] :
        /\ (c.kind = "p2p") = (c.policy = JSUndefined)
        /\ c.kind = "expense" => c.hasChat
        /\ c.hasReport => c.hasChat
        /\ c.hasChat => c.knownPayer
        /\ c.open => c.hasReport /\ c.kind = "expense" /\ c.policy.type # "free"
        /\ c.approved => c.hasReport /\ c.kind = "expense" /\ ~c.open /\ c.thread = "none" /\ c.txCurrency = "USD"
        /\ ~c.hasReport => c.txCurrency = "USD" /\ c.thread = "none" /\ c.receipt = "none"
        /\ c.kind = "expense" => c.thread # "comment"
        /\ c.receipt # "none" => c.thread # "none" /\ c.txCurrency = "USD"
        /\ c.policy.type = "corporate" => c.approved}

InitStore(c) ==
    LET expense == c.kind = "expense"
        total == IF c.txCurrency = "USD" THEN 1 ELSE 2
        previewMessage == IF c.hasReport THEN Msg("payerOwesAmount", IF expense THEN 0 - total ELSE total, "USD") ELSE EmptyMsg
        chat == (IF c.hasReport THEN [iouReportID |-> MoneyReportID] ELSE EmptyDoc)
                @@ (IF expense
                    THEN [chatType |-> "policyExpenseChat", isOwnPolicyExpenseChat |-> TRUE, policyID |-> "policy1",
                          ownerAccountID |-> userAccountID]
                    ELSE [participantAccountIDs |-> {payerAccountID}])
                @@ [reportID |-> ChatID, type |-> "chat", lastReadTime |-> 1, lastVisibleActionCreated |-> IF c.hasReport THEN 3 ELSE 1,
                    lastMessageText |-> previewMessage, lastMessageHtml |-> previewMessage]
        report == (IF expense THEN [policyID |-> "policy1"] ELSE EmptyDoc)
                  @@ [reportID |-> MoneyReportID, type |-> IF expense THEN "expense" ELSE "iou",
                      chatReportID |-> ChatID, parentReportID |-> ChatID, parentReportActionID |-> InitPreviewActionID,
                      ownerAccountID |-> userAccountID, managerID |-> payerAccountID,
                      total |-> IF expense THEN 0 - total ELSE total, currency |-> "USD",
                      stateNum |-> IF c.open THEN STATE_NUM_OPEN ELSE IF c.approved THEN STATE_NUM_APPROVED ELSE STATE_NUM_SUBMITTED,
                      statusNum |-> IF c.open THEN STATUS_NUM_OPEN ELSE IF c.approved THEN STATUS_NUM_APPROVED ELSE STATUS_NUM_SUBMITTED,
                      lastVisibleActionCreated |-> 3,
                      lastMessageText |-> Msg("requested", 1, c.txCurrency), lastMessageHtml |-> Msg("requested", 1, c.txCurrency)]
        transaction == (IF c.receipt = "none" THEN EmptyDoc
                        ELSE [receipt_state |-> c.receipt, receipt_source |-> "receipt-source", filename |-> "receipt.jpg"])
                       @@ [transactionID |-> InitTransactionID, amount |-> IF expense THEN 0 - 1 ELSE 1,
                           currency |-> c.txCurrency, reportID |-> MoneyReportID]
        created(id, at) == [reportActionID |-> id, actionName |-> "CREATED", actorAccountID |-> userAccountID,
                            created |-> at, message |-> Msg("created", 0, "")]
        preview == [reportActionID |-> InitPreviewActionID, actionName |-> "REPORTPREVIEW", actorAccountID |-> userAccountID,
                    created |-> 3, message |-> getReportPreviewMessage(report),
                    originalMessage_linkedReportID |-> MoneyReportID, childReportID |-> MoneyReportID, childMoneyRequestCount |-> 1]
        iouAction == (IF c.thread = "none" THEN EmptyDoc
                      ELSE [childReportID |-> InitThreadID, childVisibleActionCount |-> IF c.thread = "comment" THEN 1 ELSE 0])
                     @@ [reportActionID |-> InitIOUActionID, actionName |-> "IOU", actorAccountID |-> userAccountID, created |-> 3,
                         message |-> Msg("requested", 1, c.txCurrency),
                         originalMessage_type |-> "create", originalMessage_amount |-> 1, originalMessage_currency |-> c.txCurrency,
                         originalMessage_IOUTransactionID |-> InitTransactionID, originalMessage_IOUReportID |-> MoneyReportID]
        thread == [reportID |-> InitThreadID, type |-> "chat", parentReportID |-> MoneyReportID, parentReportActionID |-> InitIOUActionID,
                   lastReadTime |-> 3, lastVisibleActionCreated |-> IF c.thread = "comment" THEN 4 ELSE 3,
                   lastMessageText |-> IF c.thread = "comment" THEN Msg("comment", 0, "") ELSE EmptyMsg,
                   lastMessageHtml |-> IF c.thread = "comment" THEN Msg("comment", 0, "") ELSE EmptyMsg]
        comment == [reportActionID |-> InitCommentActionID, actionName |-> "ADDCOMMENT", actorAccountID |-> payerAccountID,
                    created |-> 4, message |-> Msg("comment", 0, "")]
        draft == [transactionID |-> OPTIMISTIC_TRANSACTION_ID, amount |-> 1, currency |-> "USD"]
    IN  (TransactionDraftKey :> draft)
        @@
        (IF c.knownPayer
         THEN PersonalDetailsKey :> (payerAccountID :> [accountID |-> payerAccountID, login |-> "payer@example.com"])
         ELSE EmptyDoc)
        @@ (IF c.hasChat
            THEN (ReportKey(ChatID) :> chat)
                 @@ (ReportActionsKey(ChatID) :>
                        ((InitCreatedActionID :> created(InitCreatedActionID, 1))
                         @@ (IF c.hasReport THEN InitPreviewActionID :> preview ELSE EmptyDoc)))
            ELSE EmptyDoc)
        @@ (IF c.hasReport
            THEN (ReportKey(MoneyReportID) :> report)
                 @@ (TransactionKey(InitTransactionID) :> transaction)
                 @@ (ReportActionsKey(MoneyReportID) :>
                        ((InitReportCreatedActionID :> created(InitReportCreatedActionID, 2)) @@ (InitIOUActionID :> iouAction)))
            ELSE EmptyDoc)
        @@ (IF c.hasReport /\ c.open THEN NextStepKey(MoneyReportID) :> [title |-> "submit"] ELSE EmptyDoc)
        @@ (IF c.thread # "none"
            THEN (ReportKey(InitThreadID) :> thread)
                 @@ (ReportActionsKey(InitThreadID) :>
                        ((InitThreadCreatedActionID :> created(InitThreadCreatedActionID, 3))
                         @@ (IF c.thread = "comment" THEN InitCommentActionID :> comment ELSE EmptyDoc)))
            ELSE EmptyDoc)

(* The button of a run that never shows it *)
NoFab == [isCreateMenuActive |-> FALSE]

NoSplit == [total |-> 0, currency |-> "USD", participants |-> 0, selfShare |-> 0, otherShare |-> 0, done |-> FALSE]

Init ==
    /\ \E c \in Situations :
          /\ store = InitStore(c)
          /\ scenario = [participant |-> Participant(c.kind), policy |-> c.policy]
    /\ queue = << >>
    /\ clock = InitClock
    /\ nextID = FirstFreshID
    /\ ops = 0
    /\ last = [type |-> "init", at |-> 0, clean |-> TRUE]
    /\ split = NoSplit
    /\ fab = NoFab

-----------------------------------------------------------------------------
(* Actions *)

(* The keys a list of updates writes *)
KeysOf(updates) == {updates[i].key : i \in DOMAIN updates}

(* API.write: the optimistic updates are applied at once and the command joins the sequential queue.  The queue  *)
(* keeps, with each command, the documents its optimistic updates wrote over, as they were, and what became of it *)
(* One run of an orchestrator: every API.write among its calls applies the optimistic updates and queues the *)
(* command                                                                                                     *)
Write(cmd) ==
    LET entry == [command |-> cmd.command, params |-> cmd.params,
                  successData |-> cmd.onyxData.successData, failureData |-> cmd.onyxData.failureData,
                  touched |-> KeysOf(cmd.onyxData.optimisticData),
                  before |-> Restrict(store, KeysOf(cmd.onyxData.optimisticData)),
                  status |-> "pending"]
                 @@ cmd
        writes == Calls(cmd.effects, "API.write") + Calls(cmd.effects, "API.read")
    IN  /\ store' = IF writes > 0 THEN Apply(store, cmd.onyxData.optimisticData) ELSE store
        /\ queue' = queue \o [i \in 1..writes |-> Without(entry, {"onyxData"})]
        /\ last' = [type |-> "optimistic", at |-> Len(queue) + 1, clean |-> TRUE]
        /\ clock' = clock + 2
        /\ nextID' = nextID + IDsPerCall
        /\ ops' = ops + 1
        /\ UNCHANGED <<scenario, split, fab>>

(* The chat the user can start a request from: the chat of the scenario, when the store has it *)
ScenarioChats ==
    IF scenario.participant.isPolicyExpenseChat
    THEN {k \in {ReportKey(scenario.participant.reportID)} : k \in DOMAIN store}
    ELSE getChatByParticipants(store, {scenario.participant.accountID})

(* What the clock moves on by between two reads within one run *)
ClockTicks == {0, 1}

(* The user requests money from the global create menu, from the chat or from the money report of the chat *)
RequestMoney ==
    /\ ops < MaxOps
    /\ \E amount \in Amounts, currency \in Currencies, from \in {"global", "chat", "report"}, tick \in ClockTicks :
          \E report \in (IF from = "global" THEN {EmptyDoc}
                         ELSE IF from = "chat" THEN {store[k] : k \in ScenarioChats}
                         ELSE {store[ReportKey(store[k].iouReportID)] : k \in {c \in ScenarioChats :
                                  "iouReportID" \in DOMAIN store[c] /\ ReportKey(store[c].iouReportID) \in DOMAIN store}}) :
             Write(requestMoney(store, report, amount, currency, userAccountID, scenario.participant, scenario.policy, clock, tick, nextID))

(* The people a bill can be split with: the workspace of an expense chat, or the other person of the chat alone *)
(* or together with a second person                                                                              *)
SplitParticipants ==
    IF scenario.participant.isPolicyExpenseChat
    THEN {<<scenario.participant>>}
    ELSE {<<scenario.participant>>, <<scenario.participant, OtherParticipant>>}

(* The user splits a bill from the chat (splitBill) or from the global create menu (splitBillAndOpenReport) *)
SplitBillWithParticipants ==
    /\ ops < MaxOps
    /\ \E amount \in Amounts, currency \in Currencies, tick \in ClockTicks :
          \/ \E k \in ScenarioChats :
                Write(splitBill(store, "SplitBill", <<scenario.participant>>, userAccountID, amount, currency,
                                store[k].reportID, clock, tick, nextID))
          \/ \E participants \in SplitParticipants :
                Write(splitBill(store, "SplitBillAndOpenReport", participants, userAccountID, amount, currency,
                                0, clock, tick, nextID))

(* The transaction threads whose transaction can still be edited *)
EditableThreads ==
    {k \in DOMAIN allReports(store) :
        /\ isChatThread(store[k])
        /\ "parentReportID" \in DOMAIN store[k]
        /\ ReportKey(store[k].parentReportID) \in DOMAIN store
        /\ isMoneyRequestReport(store[ReportKey(store[k].parentReportID)])
        /\ ReportKey(store[ReportKey(store[k].parentReportID)].chatReportID) \in DOMAIN store
        /\ store[k].parentReportActionID \in DOMAIN ReportActionsOf(store, store[k].parentReportID)
        /\ LET action == ReportActionsOf(store, store[k].parentReportID)[store[k].parentReportActionID]
           IN  /\ "originalMessage_IOUTransactionID" \in DOMAIN action
               /\ TransactionKey(action.originalMessage_IOUTransactionID) \in DOMAIN store}

TransactionOfThread(k) ==
    ReportActionsOf(store, store[k].parentReportID)[store[k].parentReportActionID].originalMessage_IOUTransactionID

(* The changes an edit form submits: a new amount, with or without a new currency *)
TransactionChanges ==
    {[amount |-> a] : a \in Amounts} \cup {[amount |-> a, currency |-> c] : a \in Amounts, c \in Currencies}

(* editMoneyRequest on a request that is not a distance request *)
EditMoneyRequest ==
    /\ ops < MaxOps
    /\ \E k \in EditableThreads, transactionChanges \in TransactionChanges :
          Write(editRegularMoneyRequest(store, TransactionOfThread(k), store[k].reportID, transactionChanges, clock, nextID))

UpdateMoneyRequestAmountAndCurrency ==
    /\ ops < MaxOps
    /\ \E k \in EditableThreads, amount \in Amounts, currency \in Currencies :
          Write(updateMoneyRequestAmountAndCurrency(store, TransactionOfThread(k), store[k].reportID, currency, amount, clock, nextID))

(* The IOU actions whose request can be deleted: <<report id, action id>> *)
DeletableActions ==
    {ra \in UNION {{<<k[2], i>> : i \in DOMAIN store[k]} : k \in {k \in DOMAIN store : k[1] = "reportActions"}} :
        LET action == store[ReportActionsKey(ra[1])][ra[2]]
        IN  /\ actionNameOf(action) = "IOU"
            /\ "originalMessage_IOUTransactionID" \in DOMAIN action
            /\ TransactionKey(action.originalMessage_IOUTransactionID) \in DOMAIN store
            /\ ReportKey(action.originalMessage_IOUReportID) \in DOMAIN store
            /\ ReportKey(store[ReportKey(action.originalMessage_IOUReportID)].chatReportID) \in DOMAIN store
            /\ getReportPreviewAction(store, store[ReportKey(action.originalMessage_IOUReportID)].chatReportID,
                                      action.originalMessage_IOUReportID) # {}}

DeleteMoneyRequest ==
    /\ ops < MaxOps
    /\ \E ra \in DeletableActions :
          LET action == store[ReportActionsKey(ra[1])][ra[2]]
          IN  Write(deleteMoneyRequest(store, action.originalMessage_IOUTransactionID, action))

(* The user picks another file as the receipt of a request that has one *)
ReplaceReceipt ==
    /\ ops < MaxOps
    /\ \E k \in DOMAIN allTransactions(store) :
          /\ "receipt_source" \in DOMAIN store[k]
          /\ Write(replaceReceipt(store, store[k].transactionID, "replacement.jpg", "replacement-source"))

(* The user sends money to the other participant, from the global create menu or from their chat *)
SendMoney ==
    /\ ops < MaxOps
    /\ ~scenario.participant.isPolicyExpenseChat
    /\ \E amount \in Amounts, currency \in Currencies, paymentType \in {"Elsewhere", "Expensify"}, tick \in ClockTicks :
          \E report \in {EmptyDoc} \cup {store[k] : k \in ScenarioChats} :
             Write(sendMoney(store, paymentType, report, amount, currency, userAccountID, scenario.participant, clock, tick, nextID))

(* The expense reports of the store *)
ExpenseReports == {k \in DOMAIN allReports(store) : isExpenseReport(store[k])}

(* The money reports of the store whose chat the store has too *)
PayableReports ==
    {k \in DOMAIN allReports(store) : isMoneyRequestReport(store[k]) /\ ReportKey(store[k].chatReportID) \in DOMAIN store}

SubmitReport ==
    /\ ops < MaxOps
    /\ \E k \in ExpenseReports : Write(submitReport(store, store[k], clock, nextID))

ApproveMoneyRequest ==
    /\ ops < MaxOps
    /\ \E k \in ExpenseReports : Write(approveMoneyRequest(store, store[k], clock, nextID))

PayMoneyRequest ==
    /\ ops < MaxOps
    /\ \E k \in PayableReports, paymentType \in {"Elsewhere", "Expensify"} :
          Write(payMoneyRequest(store, paymentType, store[ReportKey(store[k].chatReportID)], store[k], clock, nextID))

(* The commands still waiting for the server, oldest first *)
Pending == {i \in DOMAIN queue : queue[i].status = "pending"}

Oldest == CHOOSE i \in Pending : \A j \in Pending : i <= j

(* The server answers the oldest waiting command: its successData or its failureData is applied.  The answer is *)
(* clean when nothing touched the store between the optimistic updates of the command and the answer             *)
Respond(type, status, updates) ==
    /\ store' = Apply(store, updates)
    /\ queue' = [queue EXCEPT ![Oldest].status = status]
    /\ last' = [type |-> type, at |-> Oldest, clean |-> last.type = "optimistic" /\ last.at = Oldest]
    /\ UNCHANGED <<scenario, clock, nextID, ops, split, fab>>

Confirm == Pending # {} /\ Respond("confirm", "confirmed", queue[Oldest].successData)

Reject == Pending # {} /\ Respond("reject", "rejected", queue[Oldest].failureData)

Next ==
    \/ RequestMoney
    \/ EditMoneyRequest
    \/ UpdateMoneyRequestAmountAndCurrency
    \/ DeleteMoneyRequest
    \/ SubmitReport
    \/ ApproveMoneyRequest
    \/ PayMoneyRequest
    \/ SendMoney
    \/ SplitBillWithParticipants
    \/ ReplaceReceipt
    \/ Confirm
    \/ Reject

Spec == Init /\ [][Next]_vars

-----------------------------------------------------------------------------
(* Split allocation *)

(* The amount of every other participant of a split *)
splitAmount(numberOfParticipants, amount, currency) == calculateAmount(numberOfParticipants, amount, currency, FALSE)

(* A current user who takes whatever the others leave *)
selfSplitAmountTakingTheRest(numberOfParticipants, amount, currency) ==
    amount - numberOfParticipants * calculateAmount(numberOfParticipants, amount, currency, FALSE)

(* The amount of the current user's entry of the splits *)
selfSplitAmount(numberOfParticipants, amount, currency) == calculateAmount(numberOfParticipants, amount, currency, TRUE)

InitSplit ==
    /\ \E total \in (0 - MaxSplitTotal)..MaxSplitTotal, currency \in Currencies, participants \in 1..MaxParticipants :
          split = [total |-> total, currency |-> currency, participants |-> participants,
                   selfShare |-> 0, otherShare |-> 0, done |-> FALSE]
    /\ store = EmptyDoc
    /\ scenario = [participant |-> Participant("p2p"), policy |-> JSUndefined]
    /\ queue = << >>
    /\ clock = InitClock
    /\ nextID = FirstFreshID
    /\ ops = 0
    /\ last = [type |-> "init", at |-> 0, clean |-> TRUE]
    /\ fab = NoFab

(* createSplitsAndOnyxData computes the shares of a bill split with split.participants other people *)
SplitBill ==
    /\ ~split.done
    /\ split' = [split EXCEPT !.selfShare = selfSplitAmount(split.participants, split.total, split.currency),
                              !.otherShare = splitAmount(split.participants, split.total, split.currency),
                              !.done = TRUE]
    /\ UNCHANGED <<store, queue, scenario, clock, nextID, ops, last, fab>>

NextSplit == SplitBill

SpecSplit == InitSplit /\ [][NextSplit]_vars

-----------------------------------------------------------------------------
(* Bank accounts: the commands of the reimbursement account and of the bank account list *)

ReimbursementAccountKey == <<"reimbursementAccount", 0>>
BankAccountListKey == <<"bankAccountList", 0>>

(* How many bank-account commands one run sends *)
MaxBankOps == 2

BankAccountIDs == {1, 2}
BankAccountSteps == {"BankAccountStep", "CompanyStep", "RequestorStep"}

(* A command that does not read the IOU collections *)
BankCommand(command, parameters, onyxData, call) ==
    [command |-> command, params |-> parameters, onyxData |-> onyxData, effects |-> <<call>>]

(* getVBBADataForOnyx: the Onyx data of one step of the verified business bank account setup; currentStep is *)
(* "" when the caller passes none                                                                            *)
getVBBADataForOnyx(currentStep) ==
    [optimisticData |-> << MergeValue(ReimbursementAccountKey, [isLoading |-> TRUE], {"errors"}) >>,
     successData |-> << MergeValue(ReimbursementAccountKey,
                                   [isLoading |-> FALSE] @@ (IF currentStep = "" THEN EmptyDoc ELSE [draftStep |-> currentStep]),
                                   {"errors"}) >>,
     failureData |-> << MergeValue(ReimbursementAccountKey,
                                   [isLoading |-> FALSE, errors |-> OnyxError("walletPage.addBankAccountFailure")], {}) >>]

(* The Onyx data of the commands that only raise and lower isLoading *)
loadingOnyxData(clearedOptimistically) ==
    [optimisticData |-> << MergeValue(ReimbursementAccountKey, [isLoading |-> TRUE], clearedOptimistically) >>,
     successData |-> << MergeValue(ReimbursementAccountKey, [isLoading |-> FALSE], {}) >>,
     failureData |-> << MergeValue(ReimbursementAccountKey, [isLoading |-> FALSE], {}) >>]

connectBankAccountWithPlaid(bankAccountID) ==
    BankCommand("ConnectBankAccountWithPlaid", [bankAccountID |-> bankAccountID], getVBBADataForOnyx(""), "API.write")

updatePersonalInformationForBankAccount(bankAccountID) ==
    BankCommand("UpdatePersonalInformationForBankAccount", [bankAccountID |-> bankAccountID], getVBBADataForOnyx("RequestorStep"), "API.write")

updateCompanyInformationForBankAccount(bankAccountID) ==
    BankCommand("UpdateCompanyInformationForBankAccount", [bankAccountID |-> bankAccountID], getVBBADataForOnyx("CompanyStep"), "API.write")

updateBeneficialOwnersForBankAccount(bankAccountID) ==
    BankCommand("UpdateBeneficialOwnersForBankAccount", [bankAccountID |-> bankAccountID], getVBBADataForOnyx(""), "API.write")

connectBankAccountManually(bankAccountID) ==
    BankCommand("ConnectBankAccountManually", [bankAccountID |-> bankAccountID], getVBBADataForOnyx("BankAccountStep"), "API.write")

verifyIdentityForBankAccount(bankAccountID) ==
    BankCommand("VerifyIdentityForBankAccount", [bankAccountID |-> bankAccountID], getVBBADataForOnyx(""), "API.write")

validateBankAccount(bankAccountID) ==
    BankCommand("ValidateBankAccountWithTransactions", [bankAccountID |-> bankAccountID], loadingOnyxData({"errors"}), "API.write")

openReimbursementAccountPage(stepToOpen) ==
    BankCommand("OpenReimbursementAccountPage", [stepToOpen |-> stepToOpen], loadingOnyxData({}), "API.read")

openWorkspaceView ==
    BankCommand("OpenWorkspaceView", EmptyDoc, loadingOnyxData({}), "API.read")

(* deletePaymentBankAccount: the entry is marked while the command waits and removed when it succeeds; the *)
(* command has no failureData                                                                              *)
deletePaymentBankAccount(bankAccountID) ==
    BankCommand("DeletePaymentBankAccount", [bankAccountID |-> bankAccountID],
                [optimisticData |-> << MergeValue(BankAccountListKey, bankAccountID :> Entry([pendingAction |-> "delete"], {}), {}) >>,
                 successData |-> << MergeValue(BankAccountListKey, bankAccountID :> NullEntry, {}) >>,
                 failureData |-> << >>],
                "API.write")

(* The store of the bank account pages: the reimbursement account, loaded or not yet, and the user's accounts *)
InitBank ==
    /\ \E reimbursementAccount \in {EmptyDoc, [isLoading |-> FALSE], [isLoading |-> FALSE, errors |-> OnyxError("walletPage.addBankAccountFailure")]} :
          store = (ReimbursementAccountKey :> reimbursementAccount)
                  @@ (BankAccountListKey :> [id \in BankAccountIDs |-> [bankAccountID |-> id]])
    /\ scenario = [participant |-> Participant("p2p"), policy |-> JSUndefined]
    /\ queue = << >>
    /\ clock = InitClock
    /\ nextID = FirstFreshID
    /\ ops = 0
    /\ last = [type |-> "init", at |-> 0, clean |-> TRUE]
    /\ split = NoSplit
    /\ fab = NoFab

ConnectBankAccountWithPlaid == ops < MaxBankOps /\ \E id \in BankAccountIDs : Write(connectBankAccountWithPlaid(id))

UpdatePersonalInformationForBankAccount == ops < MaxBankOps /\ \E id \in BankAccountIDs : Write(updatePersonalInformationForBankAccount(id))

UpdateCompanyInformationForBankAccount == ops < MaxBankOps /\ \E id \in BankAccountIDs : Write(updateCompanyInformationForBankAccount(id))

UpdateBeneficialOwnersForBankAccount == ops < MaxBankOps /\ \E id \in BankAccountIDs : Write(updateBeneficialOwnersForBankAccount(id))

ConnectBankAccountManually == ops < MaxBankOps /\ \E id \in BankAccountIDs : Write(connectBankAccountManually(id))

VerifyIdentityForBankAccount == ops < MaxBankOps /\ \E id \in BankAccountIDs : Write(verifyIdentityForBankAccount(id))

ValidateBankAccount == ops < MaxBankOps /\ \E id \in BankAccountIDs : Write(validateBankAccount(id))

OpenReimbursementAccountPage == ops < MaxBankOps /\ \E stepToOpen \in BankAccountSteps : Write(openReimbursementAccountPage(stepToOpen))

OpenWorkspaceView == ops < MaxBankOps /\ Write(openWorkspaceView)

(* The user deletes one of the accounts of the list *)
DeletePaymentBankAccount ==
    /\ ops < MaxBankOps
    /\ \E id \in DOMAIN store[BankAccountListKey] : Write(deletePaymentBankAccount(id))

NextBank ==
    \/ ConnectBankAccountWithPlaid
    \/ UpdatePersonalInformationForBankAccount
    \/ UpdateCompanyInformationForBankAccount
    \/ UpdateBeneficialOwnersForBankAccount
    \/ ConnectBankAccountManually
    \/ VerifyIdentityForBankAccount
    \/ ValidateBankAccount
    \/ OpenReimbursementAccountPage
    \/ OpenWorkspaceView
    \/ DeletePaymentBankAccount
    \/ Confirm
    \/ Reject

SpecBank == InitBank /\ [][NextBank]_vars

-----------------------------------------------------------------------------
(* The floating action button and its create menu (FloatingActionButtonAndPopover) *)

(* How many events one run of the button sees *)
MaxFabEvents == 5

(* The component as first rendered: the menu closed, no previous render to take prevIsFocused from *)
FabFirstRender(isFocused, isSmallScreenWidth) ==
    [isCreateMenuActive |-> FALSE, isFocused |-> isFocused, prevIsFocused |-> FALSE, isSmallScreenWidth |-> isSmallScreenWidth,
     onShowCreateMenu |-> 0, onHideCreateMenu |-> 0, closings |-> 0, events |-> 0, trigger |-> "mount"]

(* didScreenBecomeInactive: the screen was focused at the previous render and is not any more *)
didScreenBecomeInactive(f) == ~f.isFocused /\ f.prevIsFocused

(* showCreateMenu: nothing on a small screen that is not focused, else the menu opens and the parent is told *)
showCreateMenu(f) ==
    IF ~f.isFocused /\ f.isSmallScreenWidth THEN f
    ELSE [f EXCEPT !.isCreateMenuActive = TRUE, !.onShowCreateMenu = @ + 1]

(* A hideCreateMenu that tells the parent also when the menu is closed already *)
hideCreateMenuUnguarded(f) == [f EXCEPT !.isCreateMenuActive = FALSE, !.onHideCreateMenu = @ + 1]

(* hideCreateMenu: nothing when the menu is closed, else the menu closes and the parent is told *)
hideCreateMenu(f) ==
    IF ~f.isCreateMenuActive THEN f
    ELSE [f EXCEPT !.isCreateMenuActive = FALSE, !.onHideCreateMenu = @ + 1]

(* The popover is on screen *)
isVisible(f) == f.isCreateMenuActive /\ (~f.isSmallScreenWidth \/ f.isFocused)

(* What React does after a handler or a change of props: when the state or the props changed the component *)
(* renders again, prevIsFocused being the isFocused of the render before, and the effect hides the menu     *)
(* when the screen became inactive; the state change of the effect makes one more render                    *)
render(old, new) ==
    IF <<new.isCreateMenuActive, new.isFocused, new.isSmallScreenWidth>> = <<old.isCreateMenuActive, old.isFocused, old.isSmallScreenWidth>>
    THEN new
    ELSE LET rendered == [new EXCEPT !.prevIsFocused = old.isFocused]
             afterEffect == IF didScreenBecomeInactive(rendered) THEN hideCreateMenu(rendered) ELSE rendered
         IN  IF afterEffect.isCreateMenuActive # rendered.isCreateMenuActive
             THEN [afterEffect EXCEPT !.prevIsFocused = rendered.isFocused]
             ELSE afterEffect

(* One event of the component: its handler runs on the last render, the component renders again, and the *)
(* observer counts the event and whether the menu went from open to closed                                *)
FabEvent(trigger, handled) ==
    /\ fab.events < MaxFabEvents
    /\ fab' = [render(fab, handled) EXCEPT !.events = @ + 1,
                                           !.trigger = trigger,
                                           !.closings = IF fab.isCreateMenuActive /\ ~render(fab, handled).isCreateMenuActive THEN @ + 1 ELSE @]
    /\ UNCHANGED <<store, queue, scenario, clock, nextID, ops, last, split>>

InitFab ==
    /\ \E isFocused \in BOOLEAN, isSmallScreenWidth \in BOOLEAN : fab = FabFirstRender(isFocused, isSmallScreenWidth)
    /\ store = EmptyDoc
    /\ scenario = [participant |-> Participant("p2p"), policy |-> JSUndefined]
    /\ queue = << >>
    /\ clock = InitClock
    /\ nextID = FirstFreshID
    /\ ops = 0
    /\ last = [type |-> "init", at |-> 0, clean |-> TRUE]
    /\ split = NoSplit

(* FloatingActionButton onPress *)
PressFloatingActionButton ==
    FabEvent("onPress", IF fab.isCreateMenuActive THEN hideCreateMenu(fab) ELSE showCreateMenu(fab))

(* PopoverMenu onItemSelected: an item of the visible menu is chosen *)
SelectMenuItem == isVisible(fab) /\ FabEvent("onItemSelected", hideCreateMenu(fab))

(* PopoverMenu onClose: a click outside the visible menu *)
ClosePopoverMenu == isVisible(fab) /\ FabEvent("onClose", hideCreateMenu(fab))

(* The parent calls hideCreateMenu through innerRef, whatever the state of the menu *)
HideThroughInnerRef == FabEvent("innerRef", hideCreateMenu(fab))

(* Another page opens over the screen, or the screen gets the focus back *)
ChangeFocus == FabEvent("isFocused", [fab EXCEPT !.isFocused = ~@])

(* The window moves between the small and the wide layout *)
ResizeWindow == FabEvent("isSmallScreenWidth", [fab EXCEPT !.isSmallScreenWidth = ~@])

NextFab ==
    \/ PressFloatingActionButton
    \/ SelectMenuItem
    \/ ClosePopoverMenu
    \/ HideThroughInnerRef
    \/ ChangeFocus
    \/ ResizeWindow

SpecFab == InitFab /\ [][NextFab]_vars

-----------------------------------------------------------------------------
(* Overlapping commands: an edit or a delete that is still waiting for the server when a create request is made *)

(* The store holds a request that can be edited *)
InitOverlap == Init /\ EditableThreads # {}

FirstEdit ==
    /\ ops = 0
    /\ \E k \in EditableThreads, transactionChanges \in TransactionChanges :
          Write(editRegularMoneyRequest(store, TransactionOfThread(k), store[k].reportID, transactionChanges, clock, nextID))

FirstUpdate ==
    /\ ops = 0
    /\ \E k \in EditableThreads, amount \in Amounts, currency \in Currencies :
          Write(updateMoneyRequestAmountAndCurrency(store, TransactionOfThread(k), store[k].reportID, currency, amount, clock, nextID))

FirstDelete ==
    /\ ops = 0
    /\ \E ra \in DeletableActions :
          LET action == store[ReportActionsKey(ra[1])][ra[2]]
          IN  Write(deleteMoneyRequest(store, action.originalMessage_IOUTransactionID, action))

(* The create request that follows, made from the chat while the first command has not been answered *)
LaterRequest ==
    /\ ops = 1
    /\ Pending # {}
    /\ \E amount \in Amounts, currency \in Currencies, tick \in ClockTicks, k \in ScenarioChats :
          Write(requestMoney(store, store[k], amount, currency, userAccountID, scenario.participant, scenario.policy, clock, tick, nextID))

NextOverlap ==
    \/ FirstEdit
    \/ FirstUpdate
    \/ FirstDelete
    \/ LaterRequest
    \/ Confirm
    \/ Reject

SpecOverlap == InitOverlap /\ [][NextOverlap]_vars

-----------------------------------------------------------------------------
(* Two create requests built from one snapshot: the second is made before the callbacks of Onyx.connect have *)
(* put the optimistic updates of the first into the module caches                                             *)

(* The store as it was before the optimistic updates of the first command of the queue *)
StoreBeforeFirst == queue[1].before @@ Restrict(store, DOMAIN store \ queue[1].touched)

(* A cache that already shows the optimistic updates of the first request *)
refreshedSnapshot(stale, fresh) == fresh

(* allReports and the other module caches when the second request runs: still what the first request read *)
cachedSnapshot(stale, fresh) == stale

FirstRequest ==
    /\ ops = 0
    /\ \E amount \in Amounts, currency \in Currencies, tick \in ClockTicks :
          \E report \in {EmptyDoc} \cup {store[k] : k \in ScenarioChats} :
             Write(requestMoney(store, report, amount, currency, userAccountID, scenario.participant, scenario.policy, clock, tick, nextID))

(* The second run reads the chat and everything else from the caches; its updates go to the store *)
SecondRequest ==
    /\ ops = 1
    /\ last.type = "optimistic"
    /\ \E amount \in Amounts, currency \in Currencies, tick \in ClockTicks :
          \E snapshot \in {cachedSnapshot(StoreBeforeFirst, store)} :
             \E report \in {EmptyDoc} \cup {snapshot[k] : k \in (IF scenario.participant.isPolicyExpenseChat
                                                                  THEN {ReportKey(scenario.participant.reportID)} \cap DOMAIN snapshot
                                                                  ELSE getChatByParticipants(snapshot, {scenario.participant.accountID}))} :
                Write(requestMoney(snapshot, report, amount, currency, userAccountID, scenario.participant, scenario.policy, clock, tick, nextID))

NextSnapshot ==
    \/ FirstRequest
    \/ SecondRequest
    \/ Confirm
    \/ Reject

SpecSnapshot == Init /\ [][NextSnapshot]_vars

-----------------------------------------------------------------------------
(* Reading the last step *)

LastCmd == queue[last.at]

(* The last step applied the optimistic updates of one of these commands *)
JustWrote(commands) == last.type = "optimistic" /\ LastCmd.command \in commands

(* The last step applied the successData (type "confirm") or the failureData (type "reject") of one of these *)
(* commands to the very store its optimistic updates had produced                                            *)
JustAnswered(type, commands) == last.type = type /\ last.clean /\ LastCmd.command \in commands

(* A document as it was before the optimistic updates of the last command; EmptyDoc when it did not exist *)
DocBefore(key) ==
    IF key \in DOMAIN LastCmd.before THEN LastCmd.before[key]
    ELSE IF key \in LastCmd.touched \/ key \notin DOMAIN store THEN EmptyDoc
    ELSE store[key]

DocNow(key) == IF key \in DOMAIN store THEN store[key] ELSE EmptyDoc

ExistedBefore(key) == key \in DOMAIN LastCmd.before \/ (key \notin LastCmd.touched /\ key \in DOMAIN store)

EditCommands == {"EditMoneyRequest", "UpdateMoneyRequestAmountAndCurrency"}

NoMarkers(doc) == (DOMAIN doc) \cap ({"pendingAction"} \cup PendingFieldKeys) = {}

(* The keys of the chat, the money report and the transaction of the last command *)
LastTransactionKey == TransactionKey(LastCmd.params.transactionID)

LastReportKey ==
    IF LastCmd.command = "RequestMoney" THEN ReportKey(LastCmd.params.iouReportID)
    ELSE IF LastCmd.command = "DeleteMoneyRequest" THEN ReportKey(LastCmd.iouReportID)
    ELSE ReportKey(LastCmd.before[LastTransactionKey].reportID)

(* The amount a transaction contributes to its report, in the sign the report stores; 0 for no transaction *)
StoredAmount(transaction) ==
    IF "amount" \notin DOMAIN transaction THEN 0
    ELSE IF TruthyNumber(transaction, "modifiedAmount") THEN transaction.modifiedAmount ELSE transaction.amount

(* The total of a report from the current user's side: an IOU report owned by the other party counts against *)
SignedTotal(report) ==
    IF "total" \notin DOMAIN report THEN 0
    ELSE IF isIOUReport(report) /\ report.ownerAccountID # userAccountID THEN 0 - report.total
    ELSE report.total

(* The last command changed the total of its report by exactly what its transaction now contributes more *)
TotalMovedByTransactionDelta ==
    SignedTotal(DocNow(LastReportKey)) - SignedTotal(DocBefore(LastReportKey))
        = StoredAmount(DocNow(LastTransactionKey)) - StoredAmount(DocBefore(LastTransactionKey))

(* The transaction of the last command is, before and after it, in the currency of its report *)
InReportCurrency ==
    LET report == DocNow(LastReportKey)
        inCurrency(transaction) ==
            "currency" \in DOMAIN transaction => transaction.currency = report.currency /\ getCurrency(transaction) = report.currency
    IN  /\ inCurrency(DocBefore(LastTransactionKey))
        /\ inCurrency(DocNow(LastTransactionKey))
        /\ LastCmd.command = "RequestMoney" => LastCmd.params.currency = report.currency

-----------------------------------------------------------------------------
(* Claims *)

(* C1: after the failureData of a create request is applied to the store its optimisticData produced, the chat *)
(* report and the money report that existed before are, error fields aside, what they were before.             *)
C1_FailureRestoresReports ==
    JustAnswered("reject", {"RequestMoney"}) =>
        \A key \in {ReportKey(LastCmd.params.chatReportID), ReportKey(LastCmd.params.iouReportID)} :
            key \in DOMAIN LastCmd.before => Without(DocNow(key), ErrorFieldKeys) = LastCmd.before[key]

(* A report that carried no pending marker before the last command carries none now *)
NoMarkersLeftOn(key) == NoMarkers(DocBefore(key)) => NoMarkers(DocNow(key))

C3_TotalFollowsEveryOperation ==
    JustWrote({"RequestMoney", "DeleteMoneyRequest"} \cup EditCommands) => TotalMovedByTransactionDelta

(* C3 amended: every optimistically applied create, edit or delete of a transaction that is, before and after *)
(* the operation, in the currency of its money report changes the total of the report by exactly the signed   *)
(* delta of the transaction.                                                                                  *)
C3_TotalFollowsOperationInReportCurrency ==
    (JustWrote({"RequestMoney", "DeleteMoneyRequest"} \cup EditCommands) /\ InReportCurrency) => TotalMovedByTransactionDelta

(* A request in the report's currency was added to an existing money report and moved its total *)
C3_Witness ==
    /\ JustWrote({"RequestMoney"})
    /\ ~LastCmd.isNewIOUReport
    /\ LastReportKey \in DOMAIN LastCmd.before
    /\ InReportCurrency
    /\ store[LastReportKey].total # LastCmd.before[LastReportKey].total

(* C4: the current user's share plus the shares of the other participants is the total of the bill *)
C4_SharesSumToTotal ==
    split.done => split.selfShare + split.participants * split.otherShare = split.total

C6_ForeignCurrencyEditKeepsTotal ==
    (JustWrote(EditCommands) /\ DocBefore(LastTransactionKey).currency # DocBefore(LastReportKey).currency) =>
        LET markers == ShadowFields \cup PendingFieldKeys \cup ErrorFieldKeys \cup {"isLoading"}
        IN  /\ store[LastReportKey] = DocBefore(LastReportKey)
            /\ Without(store[LastTransactionKey], markers) = Without(DocBefore(LastTransactionKey), markers)
            /\ "modifiedAmount" \in DOMAIN store[LastTransactionKey]

(* The amount of a transaction in another currency than its report was edited to a new value *)
C6_Witness ==
    /\ JustWrote({"UpdateMoneyRequestAmountAndCurrency"})
    /\ DocBefore(LastTransactionKey).currency # DocBefore(LastReportKey).currency
    /\ getAmount(store[LastTransactionKey], FALSE) # getAmount(DocBefore(LastTransactionKey), FALSE)

(* C7: after the failureData of an edit is applied to the optimistically edited store, the amount and currency *)
(* of the transaction and its modified* shadow fields are what they were before the edit.                      *)
C7_RejectRestoresTransaction ==
    JustAnswered("reject", EditCommands) =>
        Restrict(store[LastTransactionKey], {"amount", "currency"} \cup ShadowFields)
            = Restrict(LastCmd.before[LastTransactionKey], {"amount", "currency"} \cup ShadowFields)

(* The IOU action of the last delete was, before it, the only action of its report besides CREATED actions, and *)
(* its transaction thread, if any, held no visible comment                                                      *)
DeletedOnlyTransaction ==
    LET actions == LastCmd.before[ReportActionsKey(LastCmd.iouReportID)]
        action == actions[LastCmd.params.reportActionID]
    IN  /\ \A i \in (DOMAIN actions) \ {LastCmd.params.reportActionID} : actionNameOf(actions[i]) = "CREATED"
        /\ "childReportID" \in DOMAIN action => action.childVisibleActionCount = 0

(* C8: deleting the only transaction of a money report in which no visible action remains clears the iouReportID *)
(* of the chat report in the optimistic updates, and the confirmed delete leaves no money report document.       *)
C8_DeletingOnlyTransactionRemovesReport ==
    /\ (JustWrote({"DeleteMoneyRequest"}) /\ DeletedOnlyTransaction) =>
           "iouReportID" \notin DOMAIN store[ReportKey(LastCmd.chatReportID)]
    /\ (JustAnswered("confirm", {"DeleteMoneyRequest"}) /\ DeletedOnlyTransaction) =>
           /\ ReportKey(LastCmd.iouReportID) \notin DOMAIN store
           /\ "iouReportID" \notin DOMAIN store[ReportKey(LastCmd.chatReportID)]

(* The delete of the only transaction of a report, whose thread was open and empty, was confirmed *)
C8_Witness ==
    /\ JustAnswered("confirm", {"DeleteMoneyRequest"})
    /\ DeletedOnlyTransaction
    /\ ReportKey(LastCmd.iouReportID) \in DOMAIN LastCmd.before
    /\ "iouReportID" \in DOMAIN LastCmd.before[ReportKey(LastCmd.chatReportID)]

(* The keys the last command added to the store *)
NewKeys == {key \in LastCmd.touched : key \in DOMAIN store /\ key \notin DOMAIN LastCmd.before}

(* C9: requestMoney for a participant with no chat and no money report writes one new chat report with        *)
(* pendingFields.createChat = add, one new money report whose total is the requested amount, one new          *)
(* transaction with that amount, four new report actions (CREATED of the chat, CREATED of the report, the IOU *)
(* action, the report preview) and queues one RequestMoney command with the same amount and currency.         *)
C9_FirstRequestCreatesEverything ==
    (JustWrote({"RequestMoney"}) /\ LastCmd.isNewChatReport) =>
        LET params == LastCmd.params
            chatReport == store[ReportKey(params.chatReportID)]
            iouReport == store[ReportKey(params.iouReportID)]
            transaction == store[TransactionKey(params.transactionID)]
            chatActions == store[ReportActionsKey(params.chatReportID)]
            iouActions == store[ReportActionsKey(params.iouReportID)]
        IN  /\ {key \in NewKeys : key[1] = "report"} = {ReportKey(params.chatReportID), ReportKey(params.iouReportID)}
            /\ {key \in NewKeys : key[1] = "transactions"} = {TransactionKey(params.transactionID)}
            /\ {key \in NewKeys : key[1] = "reportActions"} = {ReportActionsKey(params.chatReportID), ReportActionsKey(params.iouReportID)}
            /\ chatReport.pendingFields_createChat = "add"
            /\ chatReport.iouReportID = params.iouReportID
            /\ isIOUReport(iouReport) /\ iouReport.chatReportID = params.chatReportID
            /\ iouReport.total = params.amount /\ iouReport.currency = params.currency
            /\ transaction.amount = params.amount /\ transaction.currency = params.currency
            /\ transaction.reportID = params.iouReportID
            /\ DOMAIN chatActions = {params.createdChatReportActionID, params.reportPreviewReportActionID}
            /\ DOMAIN iouActions = {params.createdIOUReportActionID, params.reportActionID}
            /\ Cardinality((DOMAIN chatActions) \cup (DOMAIN iouActions)) = 4
            /\ chatActions[params.createdChatReportActionID].actionName = "CREATED"
            /\ chatActions[params.reportPreviewReportActionID].actionName = "REPORTPREVIEW"
            /\ iouActions[params.createdIOUReportActionID].actionName = "CREATED"
            /\ iouActions[params.reportActionID].actionName = "IOU"
            /\ iouActions[params.reportActionID].originalMessage_type = "create"
            /\ last.at = Len(queue) /\ LastCmd.status = "pending"

(* The first request to a participant the user has no chat with was written *)
C9_Witness ==
    /\ JustWrote({"RequestMoney"})
    /\ LastCmd.isNewChatReport
    /\ DOMAIN LastCmd.before \subseteq {TransactionDraftKey}
    /\ LastCmd.params.amount = MaxAmount

(* The policy of the scenario asks for manual submission: a paid policy without scheduled submit *)
NeedsManualSubmission == isPaidGroupPolicy(scenario.policy) /\ ~scenario.policy.isHarvestingEnabled

(* C10: the hasOutstandingChildRequest a create request writes to a policy expense chat that had none is true *)
(* exactly when the policy asks for manual submission and the current user is not its admin, and it is left   *)
(* out, not written as false, when the policy asks for manual submission and the user is its admin.           *)
C10_OutstandingFlagFollowsPolicy ==
    (/\ JustWrote({"RequestMoney"})
     /\ scenario.participant.isPolicyExpenseChat
     /\ "hasOutstandingChildRequest" \notin DOMAIN DocBefore(ReportKey(LastCmd.params.chatReportID))) =>
        LET chatReport == store[ReportKey(LastCmd.params.chatReportID)]
            written == "hasOutstandingChildRequest" \in DOMAIN chatReport
        IN  /\ (written /\ chatReport.hasOutstandingChildRequest) <=> (NeedsManualSubmission /\ ~isPolicyAdmin(scenario.policy))
            /\ (NeedsManualSubmission /\ isPolicyAdmin(scenario.policy)) => ~written

(* The preview actions of a report-actions document that link a money report *)
PreviewsIn(actions, iouReportID) ==
    {i \in DOMAIN actions : actionNameOf(actions[i]) = "REPORTPREVIEW" /\ actions[i].originalMessage_linkedReportID = iouReportID}

(* C11: a chat never holds two report-preview actions for the same money report, and a request that finds the *)
(* preview action of its (chat, money report) pair writes to that action, under its reportActionID.            *)
C11_OnePreviewPerPair ==
    /\ \A k \in DOMAIN store : k[1] = "reportActions" =>
          \A i \in DOMAIN store[k] : actionNameOf(store[k][i]) = "REPORTPREVIEW" =>
              Cardinality(PreviewsIn(store[k], store[k][i].originalMessage_linkedReportID)) = 1
    /\ JustWrote({"RequestMoney"}) =>
          LET params == LastCmd.params
              before == PreviewsIn(DocBefore(ReportActionsKey(params.chatReportID)), params.iouReportID)
          IN  before # {} => params.reportPreviewReportActionID \in before

(* A request was added to a money report whose preview action the chat already had *)
C11_Witness ==
    /\ JustWrote({"RequestMoney"})
    /\ PreviewsIn(DocBefore(ReportActionsKey(LastCmd.params.chatReportID)), LastCmd.params.iouReportID) # {}
    /\ store[ReportActionsKey(LastCmd.params.chatReportID)][LastCmd.params.reportPreviewReportActionID].childMoneyRequestCount = 2

(* The commands that change the status of a money report *)
PayCommands == {"PayMoneyRequest", "PayMoneyRequestWithWallet"}
StatusCommands == {"SubmitReport", "ApproveMoneyRequest"} \cup PayCommands

(* The money report the last status command was about *)
LastStatusReportKey ==
    ReportKey(IF LastCmd.command \in PayCommands THEN LastCmd.params.iouReportID ELSE LastCmd.params.reportID)

(* The steps of statusNum the workflow knows *)
StatusSteps ==
    {<<STATUS_NUM_OPEN, STATUS_NUM_SUBMITTED>>, <<STATUS_NUM_SUBMITTED, STATUS_NUM_APPROVED>>,
     <<STATUS_NUM_APPROVED, STATUS_NUM_REIMBURSED>>, <<STATUS_NUM_SUBMITTED, STATUS_NUM_REIMBURSED>>}

(* C12: the optimistic updates of submitReport, approveMoneyRequest and payMoneyRequest leave the statusNum *)
(* of the money report alone or move it one step along OPEN -> SUBMITTED -> APPROVED -> REIMBURSED or        *)
(* SUBMITTED -> REIMBURSED, never backwards and never from OPEN straight to APPROVED or REIMBURSED.          *)
C12_StatusMovesAlongTheChain ==
    JustWrote(StatusCommands) =>
        \/ store[LastStatusReportKey].statusNum = DocBefore(LastStatusReportKey).statusNum
        \/ <<DocBefore(LastStatusReportKey).statusNum, store[LastStatusReportKey].statusNum>> \in StatusSteps

(* C13: when the server rejects approveMoneyRequest, failureData puts stateNum and statusNum of the expense *)
(* report back to what they were before the approval.                                                       *)
C13_RejectedApprovalResetsState ==
    JustAnswered("reject", {"ApproveMoneyRequest"}) =>
        /\ store[LastStatusReportKey].stateNum = DocBefore(LastStatusReportKey).stateNum
        /\ store[LastStatusReportKey].statusNum = DocBefore(LastStatusReportKey).statusNum

(* C14: when the server rejects submitReport, failureData puts stateNum and statusNum of the expense report *)
(* back to what they were before the submit, whatever they were.                                            *)
C14_RejectedSubmitResetsState ==
    JustAnswered("reject", {"SubmitReport"}) =>
        /\ store[LastStatusReportKey].stateNum = DocBefore(LastStatusReportKey).stateNum
        /\ store[LastStatusReportKey].statusNum = DocBefore(LastStatusReportKey).statusNum

(* C15: when the server rejects payMoneyRequest, failureData leaves statusNum and hasOutstandingChildRequest of *)
(* the money report and iouReportID, hasOutstandingChildRequest, lastMessageText and lastMessageHtml of the     *)
(* chat as they were before the payment: the old value, or no value where there was none.                       *)
C15_RejectedPaymentRestoresReports ==
    JustAnswered("reject", PayCommands) =>
        LET chatKey == ReportKey(LastCmd.params.chatReportID)
        IN  /\ Restrict(store[LastStatusReportKey], {"statusNum", "hasOutstandingChildRequest"})
                  = Restrict(DocBefore(LastStatusReportKey), {"statusNum", "hasOutstandingChildRequest"})
            /\ Restrict(store[chatKey], {"iouReportID", "hasOutstandingChildRequest", "lastMessageText", "lastMessageHtml"})
                  = Restrict(DocBefore(chatKey), {"iouReportID", "hasOutstandingChildRequest", "lastMessageText", "lastMessageHtml"})

CalledOnlyAfter(effects, call, earlier) ==
    \A i \in DOMAIN effects : effects[i] = call => \E j \in 1..(i - 1) : effects[j] = earlier

(* The commands of the orchestrators that tell the report about a new action *)
NotifyingCommands == {"RequestMoney", "SplitBill", "SplitBillAndOpenReport", "SendMoneyElsewhere", "SendMoneyWithWallet"}

C18_CreatedActionComesFirst ==
    JustWrote({"RequestMoney"}) =>
        LET params == LastCmd.params
            chatActions == store[ReportActionsKey(params.chatReportID)]
            iouActions == store[ReportActionsKey(params.iouReportID)]
        IN  /\ LastCmd.isNewChatReport =>
                  chatActions[params.createdChatReportActionID].created < chatActions[params.reportPreviewReportActionID].created
            /\ LastCmd.isNewIOUReport =>
                  iouActions[params.createdIOUReportActionID].created < iouActions[params.reportActionID].created

(* The last command edited a transaction whose receipt was being scanned *)
EditedWhileScanning ==
    /\ JustWrote(EditCommands)
    /\ hasReceipt(DocBefore(TransactionKey(LastCmd.params.transactionID)))
    /\ DocBefore(TransactionKey(LastCmd.params.transactionID)).receipt_state = "SCANNING"

(* C19: an edit of a transaction whose receipt is being scanned (receipt.state = SCANNING) writes no         *)
(* whisperedToAccountIDs to a report action, neither to the IOU action of the request nor to the preview     *)
(* action of its report, whether the edit runs editRegularMoneyRequest or getUpdateMoneyRequestParams.       *)
C19_EditWhileScanningKeepsWhispers ==
    EditedWhileScanning =>
        \A k \in {key \in DOMAIN store : key[1] = "reportActions"} :
            \A i \in DOMAIN store[k] :
                "whisperedToAccountIDs" \in DOMAIN store[k][i] =>
                    /\ i \in DOMAIN DocBefore(k)
                    /\ "whisperedToAccountIDs" \in DOMAIN DocBefore(k)[i]
                    /\ DocBefore(k)[i].whisperedToAccountIDs = store[k][i].whisperedToAccountIDs

(* The money report the deleted transaction was on, and the chat of that report *)
DeletedFromReportID == DocBefore(TransactionKey(LastCmd.params.transactionID)).reportID
DeletedFromChatID == DocBefore(ReportKey(DeletedFromReportID)).chatReportID

(* The preview action of that money report, before the delete and after its optimistic updates *)
DeletedPreviewID == CHOOSE i \in PreviewsIn(DocBefore(ReportActionsKey(DeletedFromChatID)), DeletedFromReportID) : TRUE
PreviewBeforeDelete == DocBefore(ReportActionsKey(DeletedFromChatID))[DeletedPreviewID]
PreviewAfterDelete == store[ReportActionsKey(DeletedFromChatID)][DeletedPreviewID]

SendCommands == {"SendMoneyElsewhere", "SendMoneyWithWallet"}

(* C21: when the optimistic updates of a create request or of send money write a personal detail of the other *)
(* participant, the store held no personal detail of that account before and the entry written carries       *)
(* isOptimisticPersonalDetail = true.                                                                         *)
C21_OptimisticPersonalDetailOnlyWhenUnknown ==
    (JustWrote({"RequestMoney"} \cup SendCommands) /\ PersonalDetailsKey \in LastCmd.touched) =>
        LET participant == scenario.participant.accountID
            details == store[PersonalDetailsKey][participant]
        IN  /\ participant \notin DOMAIN DocBefore(PersonalDetailsKey)
            /\ "isOptimisticPersonalDetail" \in DOMAIN details
            /\ details.isOptimisticPersonalDetail = TRUE

SplitCommands == {"SplitBill", "SplitBillAndOpenReport"}

(* The money reports the requests of the last command were put on: the one of a create request, one per leg of a split *)
RequestTargets ==
    IF LastCmd.command = "RequestMoney"
    THEN {LastCmd.params.iouReportID}
    ELSE {LastCmd.params.splits[i].iouReportID : i \in 2..Len(LastCmd.params.splits)}

(* The reports the store had before the last command, and what they were: a report the command did not write *)
(* is as it was                                                                                                *)
ReportsBefore == {k \in DOMAIN store : k[1] = "report" /\ (k \in DOMAIN LastCmd.before \/ k \notin LastCmd.touched)}

ReportBefore(k) == IF k \in DOMAIN LastCmd.before THEN LastCmd.before[k] ELSE store[k]

(* An expense report that takes no more requests: approved on a Control policy, or not a draft on a paid policy *)
ClosedForAdditions(report) ==
    /\ isExpenseReport(report)
    /\ \/ isControlPolicyExpenseReport(report) /\ isReportApproved(report)
       \/ isPaidGroupPolicy(scenario.policy) /\ ~isDraftExpenseReport(report)

(* C22: a create request, single or as a leg of a split, never appends to an expense report that is approved on *)
(* a Control policy or that is not a draft on a paid policy: the request goes on another money report and the   *)
(* total of the existing report stays as it was                                                                 *)
C22_ClosedReportIsNeverAppendedTo ==
    JustWrote({"RequestMoney"} \cup SplitCommands) =>
        \A k \in ReportsBefore :
            ClosedForAdditions(ReportBefore(k)) =>
                /\ k[2] \notin RequestTargets
                /\ store[k].total = ReportBefore(k).total

(* The same for the create request alone *)
C22_SingleRequestLeavesClosedReport ==
    JustWrote({"RequestMoney"}) =>
        \A k \in ReportsBefore :
            ClosedForAdditions(ReportBefore(k)) =>
                /\ k[2] \notin RequestTargets
                /\ store[k].total = ReportBefore(k).total

C22_SingleWitness ==
    /\ JustWrote({"RequestMoney"})
    /\ ReportKey(MoneyReportID) \in ReportsBefore
    /\ ClosedForAdditions(ReportBefore(ReportKey(MoneyReportID)))
    /\ isExpenseReport(store[ReportKey(LastCmd.params.iouReportID)])

(* C23: once a create request has applied its optimistic updates the draft it was composed in is gone, and it *)
(* is still gone after the command is confirmed or rejected                                                  *)
C23_DraftStaysDeleted ==
    (\E i \in DOMAIN queue : queue[i].command = "RequestMoney") => TransactionDraftKey \notin DOMAIN store

C23_Witness ==
    /\ JustAnswered("reject", {"RequestMoney"})
    /\ TransactionDraftKey \in DOMAIN LastCmd.before
    /\ TransactionDraftKey \notin DOMAIN store

(* The messages a report can show as its last one: those of its visible actions with the latest creation time, *)
(* the empty message for a CREATED action and for a report without visible actions                             *)
LastVisibleMessages(reportID) ==
    LET actions == ReportActionsOf(store, reportID)
        visible == {i \in DOMAIN actions : shouldReportActionBeVisibleAsLastAction(actions[i])}
        latest == {i \in visible : \A j \in visible : actions[j].created <= actions[i].created}
    IN  IF latest = {} THEN {EmptyMsg}
        ELSE {IF actionNameOf(actions[i]) = "CREATED" THEN EmptyMsg ELSE actions[i].message : i \in latest}

LastMessageIsLatest(reportID) ==
    LET report == store[ReportKey(reportID)]
    IN  /\ "lastMessageText" \in DOMAIN report /\ report.lastMessageText \in LastVisibleMessages(reportID)
        /\ "lastMessageHtml" \in DOMAIN report /\ report.lastMessageHtml \in LastVisibleMessages(reportID)

(* The reports whose actions the optimistic updates of the last command wrote *)
ReportsWithWrittenActions == {k[2] : k \in {k \in LastCmd.touched : k[1] = "reportActions" /\ ReportKey(k[2]) \in DOMAIN store}}

(* C24: after the optimistic updates of any orchestrator have added, edited or removed an action of a report, *)
(* lastMessageText and lastMessageHtml of that report are the message of its latest visible action            *)
C24_LastMessageFollowsLatestAction ==
    last.type = "optimistic" => \A id \in ReportsWithWrittenActions : LastMessageIsLatest(id)

(* The part of C24 about the chat of a create request: its last message is the message of the preview action *)
C24_ChatShowsPreviewAfterRequest ==
    JustWrote({"RequestMoney"}) =>
        LET chat == store[ReportKey(LastCmd.params.chatReportID)]
            preview == ReportActionsOf(store, LastCmd.params.chatReportID)[LastCmd.params.reportPreviewReportActionID]
        IN  "lastMessageText" \in DOMAIN chat /\ chat.lastMessageText = preview.message

(* The part of C24 about the money report of a create request: its last message is the message of the IOU action *)
C24_ReportShowsRequestAfterRequest ==
    JustWrote({"RequestMoney"}) =>
        LET report == store[ReportKey(LastCmd.params.iouReportID)]
            iouAction == ReportActionsOf(store, LastCmd.params.iouReportID)[LastCmd.params.reportActionID]
        IN  report.lastMessageText = iouAction.message /\ report.lastMessageHtml = iouAction.message

(* The transactions the optimistic updates of the last command created *)
NewTransactions == {k \in LastCmd.touched : k[1] = "transactions" /\ k \notin DOMAIN LastCmd.before /\ k \in DOMAIN store}

(* C25: a split among the current user and k others creates exactly one group-level transaction, parented to   *)
(* the synthetic split report, and exactly one one-on-one transaction on one money report per other            *)
(* participant, written the way a create request writes them; the splits sent with the command have one entry *)
(* for the current user followed by one per other participant                                                  *)
C25_OneGroupTransactionAndOneLegPerParticipant ==
    JustWrote(SplitCommands) =>
        LET splits == LastCmd.params.splits
            others == 2..Len(splits)
            group == {k \in NewTransactions : store[k].reportID = SPLIT_REPORTID}
            oneOnOne == NewTransactions \ group
        IN  /\ group = {TransactionKey(LastCmd.params.transactionID)}
            /\ Len(splits) = LastCmd.participantCount + 1
            /\ splits[1].accountID = userAccountID
            /\ oneOnOne = {TransactionKey(splits[i].transactionID) : i \in others}
            /\ Cardinality(oneOnOne) = LastCmd.participantCount
            /\ Cardinality({splits[i].iouReportID : i \in others}) = LastCmd.participantCount
            /\ \A i \in others :
                  /\ ReportKey(splits[i].iouReportID) \in DOMAIN store
                  /\ isMoneyRequestReport(store[ReportKey(splits[i].iouReportID)])
                  /\ store[TransactionKey(splits[i].transactionID)].reportID = splits[i].iouReportID
                  /\ splits[i].reportActionID \in DOMAIN ReportActionsOf(store, splits[i].iouReportID)
                  /\ splits[i].reportPreviewReportActionID \in DOMAIN ReportActionsOf(store, splits[i].chatReportID)
                  /\ store[ReportKey(splits[i].chatReportID)].iouReportID = splits[i].iouReportID

C25_Witness ==
    /\ JustWrote(SplitCommands)
    /\ LastCmd.participantCount = 2
    /\ Cardinality(NewTransactions) = 3

(* The documents send money writes are free of pending markers *)
SendMoneyLeftNoMarkers ==
    LET params == LastCmd.params
        chatActions == ReportActionsOf(store, params.chatReportID)
        iouActions == ReportActionsOf(store, params.iouReportID)
    IN  /\ NoMarkers(store[ReportKey(params.chatReportID)])
        /\ NoMarkers(store[TransactionKey(params.transactionID)])
        /\ NoMarkers(chatActions[params.reportPreviewReportActionID])
        /\ NoMarkers(iouActions[params.reportActionID])
        /\ LastCmd.isNewChatReport => NoMarkers(chatActions[params.createdReportActionID])

(* C26: after the successData of send money is applied to the store its optimisticData produced, with an     *)
(* existing chat and with a new one, no pendingAction and no pendingFields marker is left on the chat report, *)
(* the CREATED action of a new chat, the report preview action, the IOU pay action and the transaction        *)
C26_SendMoneySuccessLeavesNoPendingMarkers ==
    JustAnswered("confirm", SendCommands) => SendMoneyLeftNoMarkers

(* The same for an existing chat alone *)
C26_ExistingChatLeavesNoPendingMarkers ==
    (JustAnswered("confirm", SendCommands) /\ ~LastCmd.isNewChatReport) => SendMoneyLeftNoMarkers

C26_ExistingChatWitness ==
    /\ JustAnswered("confirm", SendCommands)
    /\ ~LastCmd.isNewChatReport
    /\ ReportKey(LastCmd.params.chatReportID) \in DOMAIN LastCmd.before
    /\ SendMoneyLeftNoMarkers

(* The create request that has just written put its transaction on a money report the store did not have *)
RequestBuiltNewReport ==
    /\ JustWrote({"RequestMoney"})
    /\ ReportKey(LastCmd.params.iouReportID) \notin DOMAIN LastCmd.before

(* The money report of the last create request is written as a new report: it is marked createChat = add, its *)
(* CREATED action is among its actions and the command names that action                                      *)
TreatedAsNewReport ==
    LET params == LastCmd.params
        report == store[ReportKey(params.iouReportID)]
        actions == ReportActionsOf(store, params.iouReportID)
    IN  /\ LastCmd.isNewIOUReport
        /\ "pendingFields_createChat" \in DOMAIN report /\ report.pendingFields_createChat = "add"
        /\ params.createdIOUReportActionID # 0
        /\ params.createdIOUReportActionID \in DOMAIN actions
        /\ actionNameOf(actions[params.createdIOUReportActionID]) = "CREATED"

(* C27: whenever a create request builds a new money report instead of reusing the linked one, the report is *)
(* treated as new throughout: written whole and marked createChat = add, with its CREATED action in the      *)
(* optimistic updates and the id of that action, not 0, sent as createdIOUReportActionID                     *)
C27_NewReportIsTreatedAsNew ==
    RequestBuiltNewReport => TreatedAsNewReport

(* The same when the chat had no money report linked *)
C27_FirstReportIsTreatedAsNew ==
    (RequestBuiltNewReport /\ "iouReportID" \notin DOMAIN DocBefore(ReportKey(LastCmd.params.chatReportID))) => TreatedAsNewReport

C27_FirstReportWitness ==
    /\ RequestBuiltNewReport
    /\ ReportKey(LastCmd.params.chatReportID) \in DOMAIN LastCmd.before
    /\ "iouReportID" \notin DOMAIN DocBefore(ReportKey(LastCmd.params.chatReportID))
    /\ TreatedAsNewReport

(* A create request has just written to a policy expense chat that carried no hasOutstandingChildRequest *)
RequestInExpenseChat ==
    /\ JustWrote({"RequestMoney"})
    /\ scenario.participant.isPolicyExpenseChat
    /\ "hasOutstandingChildRequest" \notin DOMAIN DocBefore(ReportKey(LastCmd.params.chatReportID))

(* C28: the hasOutstandingChildRequest a create request writes to a policy expense chat depends on manual    *)
(* submission: it is written as false when the report needs no manual submission (scheduled submit), and it  *)
(* is what the policy-admin check gives when the report must be submitted manually: true for an admin of the *)
(* policy, not written otherwise                                                                             *)
C28_OutstandingFlagDependsOnManualSubmission ==
    RequestInExpenseChat =>
        LET chatReport == store[ReportKey(LastCmd.params.chatReportID)]
            written == "hasOutstandingChildRequest" \in DOMAIN chatReport
        IN  /\ ~NeedsManualSubmission => (written /\ chatReport.hasOutstandingChildRequest = FALSE)
            /\ (NeedsManualSubmission /\ isPolicyAdmin(scenario.policy)) => (written /\ chatReport.hasOutstandingChildRequest = TRUE)
            /\ (NeedsManualSubmission /\ ~isPolicyAdmin(scenario.policy)) => ~written

(* The part of C28 about scheduled submit alone *)
C28_ScheduledSubmitWritesFalse ==
    (RequestInExpenseChat /\ scenario.policy.isHarvestingEnabled) =>
        LET chatReport == store[ReportKey(LastCmd.params.chatReportID)]
        IN  "hasOutstandingChildRequest" \in DOMAIN chatReport /\ chatReport.hasOutstandingChildRequest = FALSE

(* The first command of the queue changed or removed a request of the money report the store started with,  *)
(* the second is a create request that put its transaction on that report, in the currency of the report,    *)
(* and the first has just been rejected                                                                      *)
RejectedUnderLaterRequest ==
    /\ last.type = "reject" /\ last.at = 1
    /\ Len(queue) = 2
    /\ queue[1].command \in EditCommands \cup {"DeleteMoneyRequest"}
    /\ ReportKey(MoneyReportID) \in DOMAIN queue[1].before
    /\ queue[2].command = "RequestMoney"
    /\ queue[2].params.iouReportID = MoneyReportID
    /\ queue[2].params.currency = queue[1].before[ReportKey(MoneyReportID)].currency
    /\ ReportKey(MoneyReportID) \in DOMAIN store

(* C29: the rejection of an edit or a delete does not undo a create request made in between on the same money *)
(* report: after the failure data the total of the report is the total from before the rejected command with  *)
(* the amount of the later request in it                                                                      *)
C29_RejectKeepsLaterRequest ==
    RejectedUnderLaterRequest =>
        LET before == queue[1].before[ReportKey(MoneyReportID)]
            amount == queue[2].params.amount
        IN  store[ReportKey(MoneyReportID)].total = IF isExpenseReport(before) THEN before.total - amount ELSE before.total + amount

(* Two create requests have just been written on the money report the store started with, in its currency *)
TwoRequestsOnOneReport ==
    /\ last.type = "optimistic" /\ Len(queue) = 2
    /\ \A i \in 1..2 : queue[i].command = "RequestMoney" /\ queue[i].params.iouReportID = MoneyReportID
    /\ ReportKey(MoneyReportID) \in DOMAIN queue[1].before
    /\ \A i \in 1..2 : queue[i].params.currency = queue[1].before[ReportKey(MoneyReportID)].currency

(* C30: when two create requests on the same money report are built from the same cached snapshot, each adds  *)
(* its amount to the total of that snapshot: after the optimistic updates of both the stored total is the      *)
(* total of the snapshot with the amount of the request applied last, not with the sum of both                 *)
C30_LaterRequestOverwritesTotal ==
    TwoRequestsOnOneReport =>
        LET snapshot == queue[1].before[ReportKey(MoneyReportID)]
            signed(amount) == IF isExpenseReport(snapshot) THEN 0 - amount ELSE amount
            total == store[ReportKey(MoneyReportID)].total
        IN  /\ total = snapshot.total + signed(queue[2].params.amount)
            /\ total # snapshot.total + signed(queue[1].params.amount) + signed(queue[2].params.amount)

C30_Witness ==
    /\ TwoRequestsOnOneReport
    /\ queue[1].params.amount # queue[2].params.amount
    /\ store[ReportKey(MoneyReportID)].total = queue[1].before[ReportKey(MoneyReportID)].total + queue[2].params.amount

(* message[0].text of a report action; an action that was never rewritten holds one value for text and html *)
MessageTextOf(action) == IF "messageText" \in DOMAIN action THEN action.messageText ELSE action.message

(* C31: after a delete is rejected, the message text, the message html and childMoneyRequestCount of the       *)
(* report-preview action are what they were before the delete.                                                 *)
C31_RejectRestoresPreviewAction ==
    JustAnswered("reject", {"DeleteMoneyRequest"}) =>
        /\ PreviewAfterDelete.message = PreviewBeforeDelete.message
        /\ MessageTextOf(PreviewAfterDelete) = MessageTextOf(PreviewBeforeDelete)
        /\ PreviewAfterDelete.childMoneyRequestCount = PreviewBeforeDelete.childMoneyRequestCount

(* The part of C31 the code keeps: the count of the preview action is the one from before the delete *)
C31_RejectRestoresPreviewCount ==
    JustAnswered("reject", {"DeleteMoneyRequest"}) =>
        PreviewAfterDelete.childMoneyRequestCount = PreviewBeforeDelete.childMoneyRequestCount

(* The last delete took the transaction thread of the request with it *)
DeletedWithThread ==
    LET action == LastCmd.before[ReportActionsKey(LastCmd.iouReportID)][LastCmd.params.reportActionID]
    IN  "childReportID" \in DOMAIN action /\ ReportKey(action.childReportID) \in LastCmd.touched

DeletedThreadID == LastCmd.before[ReportActionsKey(LastCmd.iouReportID)][LastCmd.params.reportActionID].childReportID

(* C32: when deleteMoneyRequest also deletes the transaction thread, a rejected delete leaves the transaction, *)
(* the thread report and the report actions of the thread as they were before the delete.                     *)
C32_RejectRestoresThread ==
    (JustAnswered("reject", {"DeleteMoneyRequest"}) /\ DeletedWithThread) =>
        \A key \in {TransactionKey(LastCmd.params.transactionID), ReportKey(DeletedThreadID), ReportActionsKey(DeletedThreadID)} :
            /\ ExistedBefore(key) => key \in DOMAIN store
            /\ DocNow(key) = DocBefore(key)

(* The part of C32 the code keeps: the transaction and the thread report are back *)
C32_RejectRestoresTransactionAndThreadReport ==
    (JustAnswered("reject", {"DeleteMoneyRequest"}) /\ DeletedWithThread) =>
        \A key \in {TransactionKey(LastCmd.params.transactionID), ReportKey(DeletedThreadID)} :
            key \in DOMAIN store /\ store[key] = LastCmd.before[key]

(* The last delete kept the money report and left the preview action with no request to count *)
DeletedLastCountedRequest ==
    /\ ~LastCmd.shouldDeleteIOUReport
    /\ childMoneyRequestCountAfterDelete(PreviewBeforeDelete) = 0

(* C33: when a delete that keeps the money report brings childMoneyRequestCount to zero and so clears          *)
(* hasOutstandingChildRequest of the chat, a rejected delete leaves hasOutstandingChildRequest as it was       *)
(* before the delete: true, false or absent.                                                                   *)
C33_RejectRestoresOutstandingFlag ==
    (JustAnswered("reject", {"DeleteMoneyRequest"}) /\ DeletedLastCountedRequest) =>
        Restrict(store[ReportKey(DeletedFromChatID)], {"hasOutstandingChildRequest"})
            = Restrict(LastCmd.before[ReportKey(DeletedFromChatID)], {"hasOutstandingChildRequest"})

(* C34: after replaceReceipt is rejected, the receipt and the filename of the transaction are what they were  *)
(* before the replacement.                                                                                     *)
C34_RejectRestoresReceipt ==
    JustAnswered("reject", {"ReplaceReceipt"}) =>
        LET key == TransactionKey(LastCmd.params.transactionID)
        IN  Restrict(store[key], {"receipt_state", "receipt_source", "filename"})
                = Restrict(LastCmd.before[key], {"receipt_state", "receipt_source", "filename"})

(* The IOU action of the last delete as it was before the delete, and as it is now *)
DeletedActionBefore == LastCmd.before[ReportActionsKey(LastCmd.iouReportID)][LastCmd.params.reportActionID]
DeletedActionNow == store[ReportActionsKey(LastCmd.iouReportID)][LastCmd.params.reportActionID]

(* The transaction thread of that action held a visible comment *)
DeletedFromCommentedThread ==
    /\ "childReportID" \in DOMAIN DeletedActionBefore
    /\ "childVisibleActionCount" \in DOMAIN DeletedActionBefore
    /\ DeletedActionBefore.childVisibleActionCount > 0

(* C35: deleteMoneyRequest deletes the transaction thread exactly when the IOU action has a thread with no      *)
(* visible child action; when the thread has visible comments the IOU action stays as a deleted-request         *)
(* placeholder (pendingAction = update, isDeletedParentAction = true) and the money report is not deleted.      *)
C35_ThreadDeletedOnlyWhenEmpty ==
    JustWrote({"DeleteMoneyRequest"}) =>
        /\ DeletedWithThread <=> ("childReportID" \in DOMAIN DeletedActionBefore /\ ~DeletedFromCommentedThread)
        /\ DeletedWithThread =>
              /\ ReportKey(DeletedThreadID) \notin DOMAIN store
              /\ ReportActionsKey(DeletedThreadID) \notin DOMAIN store
        /\ DeletedFromCommentedThread =>
              /\ ReportKey(DeletedActionBefore.childReportID) \in DOMAIN store
              /\ DeletedActionNow.pendingAction = "update"
              /\ DeletedActionNow.isDeletedParentAction = TRUE
              /\ ~LastCmd.shouldDeleteIOUReport
              /\ ReportKey(LastCmd.iouReportID) \in DOMAIN store

(* A request whose thread holds a comment was deleted: the thread and the money report are still there and the *)
(* IOU action is the placeholder                                                                               *)
C35_Witness ==
    /\ JustWrote({"DeleteMoneyRequest"})
    /\ DeletedFromCommentedThread
    /\ ReportActionsKey(DeletedActionBefore.childReportID) \in DOMAIN store
    /\ DeletedActionNow.isDeletedParentAction = TRUE

(* The report action the last submit, approve or pay command added optimistically: its report and its id *)
AddedActionReportID == IF "iouReportID" \in DOMAIN LastCmd.params THEN LastCmd.params.iouReportID ELSE LastCmd.params.reportID
AddedActionID == IF "approvedReportActionID" \in DOMAIN LastCmd.params THEN LastCmd.params.approvedReportActionID ELSE LastCmd.params.reportActionID

(* The error of a rejected command is on the action the command added *)
ErrorOnAddedAction ==
    LET actions == store[ReportActionsKey(AddedActionReportID)]
    IN  /\ AddedActionID \in DOMAIN actions
        /\ "errors" \in DOMAIN actions[AddedActionID]
        /\ \A i \in DOMAIN actions : "errors" \in DOMAIN actions[i] => "actionName" \in DOMAIN actions[i]

(* C36: when approveMoneyRequest, submitReport or payMoneyRequest is rejected, the error is on the report action *)
(* the same call added optimistically, under its reportActionID in the actions of the report.                    *)
C36_RejectMarksAddedAction ==
    JustAnswered("reject", {"ApproveMoneyRequest", "SubmitReport", "PayMoneyRequest", "PayMoneyRequestWithWallet"}) => ErrorOnAddedAction

(* The same statement for submitReport and payMoneyRequest alone *)
C36_RejectedSubmitOrPayMarksAddedAction ==
    JustAnswered("reject", {"SubmitReport", "PayMoneyRequest", "PayMoneyRequestWithWallet"}) => ErrorOnAddedAction

(* The assignments the last orchestrator made to objects of the cached snapshot while it built its patch sets; *)
(* an orchestrator that only builds new objects or copies makes none                                           *)
CacheWritesOf(cmd) == IF "cacheWrites" \in DOMAIN cmd THEN cmd.cacheWrites ELSE << >>

(* The cached documents the last orchestrator's patches are about, when it was called and when it returned *)
CacheWhenCalled == LastCmd.before
CacheWhenReturned == Apply(LastCmd.before, CacheWritesOf(LastCmd))

AnyCommand == {queue[i].command : i \in DOMAIN queue}

(* C37: building the patch sets of an operation leaves the cached snapshot as it was: the cached reports and   *)
(* report actions the orchestrator read hold the same field values when it returns as when it was called.     *)
C37_BuildLeavesCacheUnchanged ==
    JustWrote(AnyCommand) => CacheWhenReturned = CacheWhenCalled

(* The commands whose Onyx data raise and lower the isLoading flag of the reimbursement account *)
ReimbursementAccountCommands ==
    {"ConnectBankAccountWithPlaid", "UpdatePersonalInformationForBankAccount", "UpdateCompanyInformationForBankAccount",
     "UpdateBeneficialOwnersForBankAccount", "ConnectBankAccountManually", "VerifyIdentityForBankAccount",
     "ValidateBankAccountWithTransactions", "OpenReimbursementAccountPage", "OpenWorkspaceView"}

LoadingInFlight == {i \in Pending : queue[i].command \in ReimbursementAccountCommands}

LoadingAnswered == {i \in DOMAIN queue : queue[i].status # "pending" /\ queue[i].command \in ReimbursementAccountCommands}

isLoading == "isLoading" \in DOMAIN store[ReimbursementAccountKey] /\ store[ReimbursementAccountKey].isLoading

(* C38: the isLoading flag of the reimbursement account is true whenever at least one bank-account command is *)
(* still in flight, also when several overlap, and false once every such command has received its outcome.   *)
C38_LoadingWhileInFlight ==
    /\ LoadingInFlight # {} => isLoading
    /\ (LoadingInFlight = {} /\ LoadingAnswered # {}) => ~isLoading

(* The same statement for runs in which the commands do not overlap: the flag is up from the optimistic apply *)
(* of a command until its answer                                                                              *)
C38_LoadingOfOneCommand ==
    /\ JustWrote(ReimbursementAccountCommands) => isLoading
    /\ (LoadingInFlight = {} /\ LoadingAnswered # {}) => ~isLoading

(* The entry of the account the last command deletes *)
DeletedBankAccountID == LastCmd.params.bankAccountID

(* C39: after deletePaymentBankAccount the entry of the account is removed once the server confirms, and when *)
(* the server rejects the command the entry no longer carries the pendingAction = delete marker.              *)
C39_DeleteBankAccountSettles ==
    /\ JustAnswered("confirm", {"DeletePaymentBankAccount"}) => DeletedBankAccountID \notin DOMAIN store[BankAccountListKey]
    /\ JustAnswered("reject", {"DeletePaymentBankAccount"}) =>
          /\ DeletedBankAccountID \in DOMAIN store[BankAccountListKey]
          /\ "pendingAction" \notin DOMAIN store[BankAccountListKey][DeletedBankAccountID]

(* The confirmed half of the statement *)
C39_ConfirmedDeleteRemovesAccount ==
    JustAnswered("confirm", {"DeletePaymentBankAccount"}) => DeletedBankAccountID \notin DOMAIN store[BankAccountListKey]

(* C40: onHideCreateMenu is invoked exactly once per transition of the create menu from open to closed,     *)
(* whatever the trigger, and never while the menu is closed already; when the screen goes from focused to   *)
(* unfocused with the menu open, the menu is closed.                                                        *)
C40_HideOncePerClosing ==
    /\ [](fab.onHideCreateMenu = fab.closings)
    /\ [][(fab.isFocused /\ ~fab'.isFocused /\ fab.isCreateMenuActive) =>
              (~fab'.isCreateMenuActive /\ fab'.onHideCreateMenu = fab.onHideCreateMenu + 1)]_vars
    /\ [][(~fab.isCreateMenuActive) => fab'.onHideCreateMenu = fab.onHideCreateMenu]_vars

(* The screen lost the focus with the menu open: the menu is closed and the parent was told, for the second time *)
(* in this run                                                                                                  *)
C40_Witness ==
    /\ fab.trigger = "isFocused"
    /\ ~fab.isFocused
    /\ ~fab.isCreateMenuActive
    /\ fab.closings = 2
    /\ fab.onHideCreateMenu = 2
====
